---- MODULE Spec2Model ----
(***************************************************************************)
(* Model of appemd's reconciliation engine: MarkdownRenderer (renderer.ts),*)
(* the block renderers (blocks.ts), the schema (spec.ts) and the helpers   *)
(* of utils.ts.                                                            *)
(*                                                                         *)
(* The syntax-tree producer (@lezer/markdown) is an external collaborator. *)
(* The document text is a sequence of tokens, one offset unit each, and a  *)
(* token says what the parser makes of it:                                 *)
(*   grow   the open tail block gets one more unit   ("# Hello" + "!")     *)
(*   open k a new top-level block of kind k starts   ("a" + "\n\n# ")      *)
(*   morph k the tail block turns into kind k        ("#" + "a" -> "#a")   *)
(*   item   the tail list / fenced code gets a new item / code line        *)
(*   info   the tail fenced code, still one fence, gets its info string    *)
(*   join   the tail block is absorbed by the paragraph before it          *)
(*          ("a\n***" is Paragraph, HorizontalRule; "a\n***b" is one       *)
(*          Paragraph)                                                     *)
(* Parse is a fold over the text, so an incremental parse and a full parse *)
(* of the same text give the same tree.                                    *)
(***************************************************************************)
EXTENDS Integers, Sequences, FiniteSets, TLC

\* ---------------------------------------------------------------- bounds
MaxLen == 3
MaxChunk == 2
MaxId == 4
NumTargets == 2
MaxItems == 2
MaxPrior == 3
MaxReId == 9
MaxFenceLen == 5
MaxNestLen == 4
MaxPatchLen == 8

\* ------------------------------------------------------------ small helpers
Max(a, b) == IF a > b THEN a ELSE b
Min(a, b) == IF a < b THEN a ELSE b
Last(s) == s[Len(s)]
Front(s) == SubSeq(s, 1, Len(s) - 1)
SetLast(s, x) == [s EXCEPT ![Len(s)] = x]

\* --------------------------------------------------------------- node kinds
HeadingName(level) ==
  CASE level = 1 -> "ATXHeading1" [] level = 2 -> "ATXHeading2"
    [] level = 3 -> "ATXHeading3" [] level = 4 -> "ATXHeading4"
    [] level = 5 -> "ATXHeading5" [] level = 6 -> "ATXHeading6"

HeadingKinds == {HeadingName(l) : l \in 1..6}

\* name.slice(-1) of a heading kind, 0 for every other kind
HeadingLevel(name) ==
  IF name \in HeadingKinds THEN CHOOSE l \in 1..6 : HeadingName(l) = name ELSE 0

HTag(level) ==
  CASE level = 1 -> "h1" [] level = 2 -> "h2" [] level = 3 -> "h3"
    [] level = 4 -> "h4" [] level = 5 -> "h5" [] level = 6 -> "h6"

HeadingTags == {HTag(l) : l \in 1..6}

ListKinds == {"OrderedList", "BulletList"}

BlockKinds ==
  HeadingKinds \cup ListKinds \cup
  {"Paragraph", "HorizontalRule", "FencedCode", "CommentBlock"}

\* ------------------------------------------------------------- syntax nodes
Node(name, from, to, kids) ==
  [name |-> name, from |-> from, to |-> to, kids |-> kids]

\* --------------------------------------------------------------- the parser
Tok(op, kind) == [op |-> op, kind |-> kind]

\* kinds a chunk may open as a new top-level block
OpenKinds ==
  {"Paragraph", "ATXHeading1", "OrderedList", "BulletList", "HorizontalRule",
   "FencedCode", "CommentBlock"}

\* tail kind a -> kind b by one more character
CanMorph(a, b) ==
  \/ a \in HeadingKinds /\ b = "Paragraph"                    \* "#"  + "a"
  \/ a \in HeadingKinds /\ HeadingLevel(a) < 6
       /\ b = HeadingName(HeadingLevel(a) + 1)                \* "#"  + "#"
  \/ a \in ListKinds /\ b = "Paragraph"                       \* "-"  + "a"
  \/ a = "Paragraph" /\ b \in {"FencedCode", "HorizontalRule",
                               "OrderedList", "CommentBlock"} \* "``" + "`"
  \/ a = "HorizontalRule" /\ b = "Paragraph"                  \* "---" + "a"

MorphKinds ==
  {"Paragraph", "ATXHeading2", "FencedCode", "HorizontalRule", "OrderedList",
   "CommentBlock"}

Tokens ==
  {Tok("grow", "-"), Tok("item", "-"), Tok("join", "-"), Tok("info", "-")}
    \cup {Tok("open", k) : k \in OpenKinds}
    \cup {Tok("morph", k) : k \in MorphKinds}

\* a block of kind k that starts at offset pos and is one unit long
NewBlock(k, pos) ==
  IF k \in ListKinds
    THEN Node(k, pos, pos + 1, <<Node("ListItem", pos, pos + 1, <<>>)>>)
    ELSE Node(k, pos, pos + 1, <<>>)

\* the tail block after one more unit of content
GrowBlock(b, pos) ==
  CASE b.name \in ListKinds ->
         LET it == Last(b.kids)
             it2 == IF it.kids = <<>>
                      THEN [it EXCEPT !.to = pos + 1,
                                      !.kids = <<Node("Paragraph", pos, pos + 1, <<>>)>>]
                      ELSE [it EXCEPT !.to = pos + 1,
                                      !.kids = SetLast(it.kids,
                                                 [Last(it.kids) EXCEPT !.to = pos + 1])]
         IN [b EXCEPT !.to = pos + 1, !.kids = SetLast(b.kids, it2)]
    [] b.name = "FencedCode" ->
         IF b.kids = <<>>
           THEN [b EXCEPT !.to = pos + 1,
                          !.kids = <<Node("CodeText", pos, pos + 1, <<>>)>>]
           ELSE [b EXCEPT !.to = pos + 1,
                          !.kids = SetLast(b.kids, [Last(b.kids) EXCEPT !.to = pos + 1])]
    [] OTHER -> [b EXCEPT !.to = pos + 1]

\* the tail list / fenced code after a new item / code line
ItemBlock(b, pos) ==
  IF b.name \in ListKinds
    THEN [b EXCEPT !.to = pos + 1,
                   !.kids = Append(b.kids, Node("ListItem", pos, pos + 1, <<>>))]
    ELSE [b EXCEPT !.to = pos + 1,
                   !.kids = Append(b.kids, Node("CodeText", pos, pos + 1, <<>>))]

\* the tail fenced code after the first character of its info string
InfoBlock(b, pos) ==
  [b EXCEPT !.to = pos + 1, !.kids = <<Node("CodeInfo", pos, pos + 1, <<>>)>>]

\* the tail list after a thematic break in its last item ("- " + "***")
RuleBlock(b, pos) ==
  [b EXCEPT !.to = pos + 1,
            !.kids = SetLast(b.kids,
                       [Last(b.kids) EXCEPT
                          !.to = pos + 1,
                          !.kids = Append(Last(b.kids).kids,
                                          Node("HorizontalRule", pos, pos + 1, <<>>))])]

\* may token tok follow a text whose tree is tr
Applicable(tr, tok) ==
  CASE tok.op = "open" -> TRUE
    [] tok.op = "rule" -> tr # <<>> /\ Last(tr).name \in ListKinds
    [] tok.op = "grow" -> tr # <<>>
    [] tok.op = "item" ->
         tr # <<>> /\ Last(tr).name \in ListKinds \cup {"FencedCode"}
    [] tok.op = "info" ->
         tr # <<>> /\ Last(tr).name = "FencedCode" /\ Last(tr).kids = <<>>
    [] tok.op = "morph" ->
         /\ tr # <<>>
         /\ CanMorph(Last(tr).name, tok.kind)
         /\ Last(tr).to - Last(tr).from = 1 \/ Last(tr).name = "HorizontalRule"
    [] tok.op = "join" ->
         /\ Len(tr) >= 2
         /\ tr[Len(tr) - 1].name = "Paragraph"
         /\ \/ Last(tr).name = "HorizontalRule"
            \/ Last(tr).name = "ATXHeading1" /\ Last(tr).to - Last(tr).from = 1

\* the tree of text + tok, given the tree tr of text (of length pos)
ParseStep(tr, pos, tok) ==
  CASE tok.op = "open" -> Append(tr, NewBlock(tok.kind, pos))
    [] tok.op = "grow" -> SetLast(tr, GrowBlock(Last(tr), pos))
    [] tok.op = "item" -> SetLast(tr, ItemBlock(Last(tr), pos))
    [] tok.op = "info" -> SetLast(tr, InfoBlock(Last(tr), pos))
    [] tok.op = "rule" -> SetLast(tr, RuleBlock(Last(tr), pos))
    [] tok.op = "morph" ->
         SetLast(tr, [NewBlock(tok.kind, Last(tr).from) EXCEPT !.to = pos + 1])
    [] tok.op = "join" ->
         SetLast(Front(tr), [tr[Len(tr) - 1] EXCEPT !.to = pos + 1])

RECURSIVE ParseUpTo(_, _)
ParseUpTo(txt, k) ==
  IF k = 0 THEN <<>> ELSE ParseStep(ParseUpTo(txt, k - 1), k - 1, txt[k])

\* parser.parse(text): the top-level children of the tree
Parse(txt) == ParseUpTo(txt, Len(txt))

\* the chunks of at most k tokens that may follow a text of length pos whose
\* tree is tr, the empty chunk included
RECURSIVE ChunksFrom(_, _, _)
ChunksFrom(tr, pos, k) ==
  IF k <= 0 THEN {<<>>}
  ELSE {<<>>} \cup
       UNION {{<<tok>> \o c : c \in ChunksFrom(ParseStep(tr, pos, tok), pos + 1, k - 1)} :
              tok \in {t \in Tokens : Applicable(tr, t)}}

\* the tokens of a document of paragraphs, raw HTML blocks and bullet lists
\* whose items hold paragraphs and thematic breaks
NestTokens ==
  {Tok("open", "BulletList"), Tok("item", "-"), Tok("grow", "-"), Tok("rule", "-"),
   Tok("open", "Paragraph"), Tok("open", "HTMLBlock")}

RECURSIVE NestChunksFrom(_, _, _)
NestChunksFrom(tr, pos, k) ==
  IF k <= 0 THEN {<<>>}
  ELSE {<<>>} \cup
       UNION {{<<tok>> \o c : c \in NestChunksFrom(ParseStep(tr, pos, tok), pos + 1, k - 1)} :
              tok \in {t \in NestTokens : Applicable(tr, t)}}

\* ---------------------------------------------------------------- schema
\* LezerTagMap[name]; "undefined" for a kind the map lacks
LezerTagMap(name) ==
  CASE name = "Paragraph" -> "paragraph"
    [] name \in HeadingKinds -> "heading"
    [] name = "FencedCode" -> "code_block"
    [] name = "HorizontalRule" -> "horizontal_rule"
    [] name = "BulletList" -> "bullet_list"
    [] name = "OrderedList" -> "ordered_list"
    [] name = "StrongEmphasis" -> "strong"
    [] name = "Emphasis" -> "em"
    [] name = "Strikethrough" -> "strikethrough"
    [] name = "Subscript" -> "subscript"
    [] name = "Superscript" -> "superscript"
    [] name = "InlineCode" -> "code"
    [] name = "Link" -> "link"
    [] OTHER -> "undefined"

\* schemaSpec.blocks[type].tag; htag is the heading entry's current tag
schemaSpec(type, htag) ==
  CASE type = "paragraph" -> "p"
    [] type = "heading" -> htag
    [] type = "code_block" -> "pre"
    [] type = "horizontal_rule" -> "hr"
    [] type = "ordered_list" -> "ol"
    [] type = "bullet_list" -> "ul"
    [] type = "list_item" -> "li"
    [] OTHER -> "undefined"

\* does schema.marks[type] ?? schema.blocks[type] exist for the node's kind
HasSpec(name) == LezerTagMap(name) # "undefined"

\* getNodeSpec(schema, node): the entry's tag as the caller reads it, and the
\* heading entry's tag afterwards (spec.tag = `h${headingLevel}` is written
\* into the shared schema object)
getNodeSpec(htag, node) ==
  LET level == HeadingLevel(node.name)
      htag2 == IF level > 0 THEN HTag(level) ELSE htag
  IN [tag |-> schemaSpec(LezerTagMap(node.name), htag2), htag |-> htag2]

\* ------------------------------------------------------------ render target
\* An element or text node of the host tree. id is the node's identity, txt
\* the span [from, to) of the source text a text node shows, start whether
\* an ol carries the start attribute.
\* cls is the span of the source text X of a class language-X, <<>> for none
El(id, tag, kids) ==
  [id |-> id, tag |-> tag, kids |-> kids, txt |-> <<>>, start |-> FALSE, cls |-> <<>>]

TextNode(id, from, to) ==
  [id |-> id, tag |-> "#text", kids |-> <<>>, txt |-> <<from, to>>, start |-> FALSE,
   cls |-> <<>>]

Nil == El(0, "", <<>>)

\* parent.children.item(i), 0-based; Nil when there is none
item(kids, i) == IF i >= 0 /\ i < Len(kids) THEN kids[i + 1] ELSE Nil

\* the children of a parent after addOrReplaceInDOM(newChild, children[i], parent):
\* replaceChild when children[i] exists, appendChild otherwise
addOrReplaceInDOM(kids, newChild, i) ==
  IF i >= 0 /\ i < Len(kids) THEN [kids EXCEPT ![i + 1] = newChild]
  ELSE Append(kids, newChild)

createBlockH1(type, level, id) ==
  CASE type = "code_block" ->
         [el |-> El(id, "pre", <<El(id + 1, "code", <<>>)>>), nid |-> id + 2]
    [] OTHER -> [el |-> El(id, schemaSpec(type, "h1"), <<>>), nid |-> id + 1]

\* createElement(spec, tag): code_block carries children: [{tag: "code"}]
createBlock(type, level, id) ==
  CASE type = "heading" /\ level > 0 -> [el |-> El(id, HTag(level), <<>>), nid |-> id + 1]
    [] type = "code_block" ->
         [el |-> El(id, "pre", <<El(id + 1, "code", <<>>)>>), nid |-> id + 2]
    [] OTHER -> [el |-> El(id, schemaSpec(type, "h1"), <<>>), nid |-> id + 1]

\* ----------------------------------------------------------- inline renderer
\* kinds lezer tags as processing instructions: the delimiters and hard breaks
InstKinds ==
  {"EmphasisMark", "StrikethroughMark", "SubscriptMark", "SuperscriptMark",
   "CodeMark", "LinkMark", "HeaderMark", "HardBreak"}

NestableKinds ==
  {"StrongEmphasis", "Emphasis", "Strikethrough", "Subscript", "Superscript",
   "InlineCode"}

getInstChildren(node) == SelectSeq(node.kids, LAMBDA n : n.name \in InstKinds)

getNonInstChildren(node) == SelectSeq(node.kids, LAMBDA n : n.name \notin InstKinds)

\* LezerMarksMap[name]: the mark entries of the tag map
LezerMarksMap(name) ==
  IF name \in NestableKinds \cup {"Link"} THEN LezerTagMap(name) ELSE "undefined"

\* schema.marks[type].tag
markTag(type) ==
  CASE type = "strong" -> "strong" [] type = "em" -> "em"
    [] type = "strikethrough" -> "s" [] type = "subscript" -> "sub"
    [] type = "superscript" -> "sup" [] type = "code" -> "code"
    [] type = "link" -> "a" [] type = "hard_break" -> "br"

NoNode == Node("", 0, 0, <<>>)

\* an InlineNode; node is NoNode for a plain text segment
inlineNode(node) ==
  [node |-> node, from |-> node.from, to |-> node.to, kids |-> <<>>]

textNodeFT(from, to) == [node |-> NoNode, from |-> from, to |-> to, kids |-> <<>>]

RECURSIVE buildInlineNodeTree(_)
RECURSIVE BuildLoop(_, _, _, _, _)
\* the for loop of buildInlineNodeTree and the trailing text after it
BuildLoop(node, children, k, from, acc) ==
  IF k > Len(children)
    THEN IF from < node.to THEN Append(acc, textNodeFT(from, node.to)) ELSE acc
    ELSE LET child == children[k]
             gap == IF from < child.from THEN <<textNodeFT(from, child.from)>> ELSE <<>>
             grandChildren == getNonInstChildren(child)
             childNode ==
               IF LezerMarksMap(child.name) # "undefined"
                 THEN [inlineNode(child) EXCEPT
                         !.kids = [j \in 1..Len(grandChildren) |->
                                     buildInlineNodeTree(grandChildren[j])]]
                 ELSE [inlineNode(child) EXCEPT
                         !.kids = <<textNodeFT(child.from, child.to)>>]
         IN BuildLoop(node, children, k + 1, child.to, (acc \o gap) \o <<childNode>>)

buildInlineNodeTree(node) ==
  LET children == getNonInstChildren(node)
  IN IF children = <<>>
       THEN [inlineNode(node) EXCEPT !.kids = <<textNodeFT(node.from, node.to)>>]
       ELSE [inlineNode(node) EXCEPT !.kids = BuildLoop(node, children, 1, node.from, <<>>)]

\* A virtual node. sel is "#str" for a bare string and "#text" for a text
\* vnode; txt is the span of the source shown as text, <<>> for none; arr is
\* whether children is an array (it then takes precedence over text).
VNode(sel, txt, kids, arr) == [sel |-> sel, txt |-> txt, kids |-> kids, arr |-> arr]

Str(from, to) == VNode("#str", <<from, to>>, <<>>, FALSE)

RECURSIVE iNodeToVNode(_)
\* nestableMark: the children pushed onto vNode.children are not normalised, a
\* bare string stays a bare string
nestableMark(iNode) ==
  LET node == iNode.node
      marks == getInstChildren(node)
      start == IF Len(marks) > 0 THEN marks[1].to ELSE node.from
      end == IF Len(marks) > 1 THEN marks[Len(marks)].from ELSE node.to
      tag == markTag(LezerTagMap(node.name))
  IN IF iNode.kids # <<>>
       THEN VNode(tag, <<start, end>>,
                  [j \in 1..Len(iNode.kids) |-> iNodeToVNode(iNode.kids[j])], TRUE)
       ELSE VNode(tag, <<start, end>>, <<>>, FALSE)

iNodeToVNodeRawTag(iNode) ==
  CASE iNode.node.name \in NestableKinds -> nestableMark(iNode)
    [] iNode.node.name = "HardBreak" -> VNode(markTag("hard_break"), <<>>, <<>>, FALSE)
    [] iNode.node.name = "Escape" -> Str(iNode.from + 1, iNode.to)
    [] iNode.node.name = "URL" -> Str(0, 0)
    [] OTHER -> Str(iNode.from, iNode.to)

iNodeToVNode(iNode) ==
  CASE iNode.node.name \in NestableKinds -> nestableMark(iNode)
    [] iNode.node.name = "HardBreak" -> VNode(markTag("hard_break"), <<>>, <<>>, FALSE)
    [] iNode.node.name = "Escape" -> Str(iNode.from + 1, iNode.to)
    [] iNode.node.name = "HTMLTag" -> VNode("span", <<iNode.from, iNode.to>>, <<>>, FALSE)
    [] iNode.node.name = "URL" -> Str(0, 0)
    [] OTHER -> Str(iNode.from, iNode.to)

\* h(sel, data, children) turns every primitive child into a text vnode
hChildren(vs) ==
  [j \in 1..Len(vs) |-> IF vs[j].sel = "#str" THEN [vs[j] EXCEPT !.sel = "#text"] ELSE vs[j]]

\* the children a vnode's element gets: the children array when there is one,
\* else the text as one text node
VContent(v) ==
  IF v.arr THEN v.kids
  ELSE IF v.txt # <<>> THEN <<VNode("#text", v.txt, <<>>, FALSE)>> ELSE <<>>

\* n put at index j (1-based) of the children old
Put(old, j, n) == IF j <= Len(old) THEN [old EXCEPT ![j] = n] ELSE Append(old, n)

\* patch: the host children old after they were patched to show the vnodes vs,
\* from index j on. A child that is a bare string has no sel, no data and
\* cannot take an elm: creating its node throws a TypeError.
RECURSIVE PatchKids(_, _, _, _)
\* the element e at index j, given the outcome r of patching its children
PatchElem(old, vs, j, id, e, r) ==
  IF r.err # "" THEN [kids |-> old, nid |-> id, err |-> r.err]
  ELSE PatchKids(Put(old, j, [e EXCEPT !.kids = r.kids]), vs, j + 1, r.nid)

\* the vnode v at index j, where the host has the node o (Nil for none)
PatchNode(old, vs, j, id, v, o) ==
  CASE v.sel = "#str" -> [kids |-> old, nid |-> id, err |-> "TypeError"]
    [] v.sel = "#text" /\ o.tag = "#text" ->
         PatchKids(Put(old, j, [o EXCEPT !.txt = v.txt]), vs, j + 1, id)
    [] v.sel = "#text" /\ o.tag # "#text" ->
         PatchKids(Put(old, j, TextNode(id, v.txt[1], v.txt[2])), vs, j + 1, id + 1)
    [] v.sel \notin {"#str", "#text"} /\ o.tag = v.sel ->
         PatchElem(old, vs, j, id, o, PatchKids(o.kids, VContent(v), 1, id))
    [] OTHER ->
         PatchElem(old, vs, j, id, El(id, v.sel, <<>>),
                   PatchKids(<<>>, VContent(v), 1, id + 1))

PatchKids(old, vs, j, id) ==
  IF j > Len(vs) THEN [kids |-> SubSeq(old, 1, Len(vs)), nid |-> id, err |-> ""]
  ELSE PatchNode(old, vs, j, id, vs[j], item(old, j - 1))

\* tree.children.map(iNodeToVNode)
childVNodes(iNodes) == [j \in 1..Len(iNodes) |-> iNodeToVNode(iNodes[j])]

\* the element after the patch with outcome r: when the patch throws, the
\* element is left as it was
Patched(el, id, r) ==
  IF r.err # "" THEN [el |-> el, nid |-> id, err |-> r.err]
  ELSE [el |-> [el EXCEPT !.kids = r.kids], nid |-> r.nid, err |-> ""]

\* renderInline(context, node, element): the element's content becomes the
\* rendering of the node's inline region; an existing text node is patched in
\* place, otherwise one is created
renderInline(el, node, id) ==
  Patched(el, id,
          PatchKids(el.kids, hChildren(childVNodes(buildInlineNodeTree(node).kids)), 1, id))

\* ------------------------------------------------------------ block renderers
\* A pass threads a record m:
\*   dom   target.children          nid    next fresh node identity
\*   blk   state.block              htag   schema.blocks.heading.tag
\*   err   the error thrown, "" while none
\*   synced, mismatch   whether syncDOM ran, and its firstMismatch
\*   disp  the indices renderBlock was called for, in order
\*   used  <<index, id>> of the element each dispatched renderer rendered into
\*   cleaned  <<index, id>> of the element each invoked cleanup hook was given

NoBlock == [index |-> -1, from |-> 0, to |-> 0, name |-> ""]

blockState(index, node) ==
  [index |-> index, from |-> node.from, to |-> node.to, name |-> node.name]

\* the renderer rendered node m.blk.index into element el
Used(m, el) == [m EXCEPT !.used = Append(m.used, <<m.blk.index, el.id>>)]

\* the pass after renderInline came back with r for the element at index i of
\* the target (appended when there is no such index); the element was attached
\* before renderInline was called
Filled(m, i, r) ==
  Used([m EXCEPT !.dom = addOrReplaceInDOM(m.dom, r.el, i), !.nid = r.nid,
                 !.err = r.err], r.el)

\* createBlock, then renderInline into the new element
renderInlineNew(c, node) == renderInline(c.el, node, c.nid)

\* ParagraphRenderer at top level (parent and child undefined): createP calls
\* addOrReplaceInDOM(p, undefined, undefined), which appends to the target,
\* and renderInline fills the attached element afterwards
ParagraphRenderer(m, node) ==
  LET i == m.blk.index
      block == item(m.dom, i)
  IN IF block.tag = "p"
       THEN Filled(m, i, renderInline(block, node, m.nid))
       ELSE Filled(m, -1, renderInlineNew(createBlock("paragraph", 0, m.nid), node))

\* ParagraphRenderer with a parent: the children of the parent afterwards.
\* (context.getBlockElement() is the enclosing top-level list, never a p.)
FilledKids(kids, j, r) ==
  [kids |-> addOrReplaceInDOM(kids, r.el, j), nid |-> r.nid, err |-> r.err]

NestedParagraph(kids, node, j, id) ==
  IF item(kids, j).tag = "p"
    THEN FilledKids(kids, j, renderInline(item(kids, j), node, id))
    ELSE FilledKids(kids, j, renderInlineNew(createBlock("paragraph", 0, id), node))

HeadingsRenderer(m, node) ==
  LET nlevel == HeadingLevel(node.name)
      i == m.blk.index
      el == item(m.dom, i)
  IN IF el.tag \in HeadingTags /\ el.tag = HTag(nlevel)
       THEN Filled(m, i, renderInline(el, node, m.nid))
       ELSE Filled(m, i, renderInlineNew(createBlock("heading", nlevel, m.nid), node))

HorizontalRuleRenderer(m, node) ==
  LET c == createBlock("horizontal_rule", 0, m.nid)
  IN Used([m EXCEPT !.dom = addOrReplaceInDOM(m.dom, c.el, m.blk.index), !.nid = c.nid],
          c.el)

\* the loop over codeNodes: a fresh text node per code node from lastDOMIndex on
RECURSIVE CodeLoop(_, _, _, _)
CodeLoop(kids, codeNodes, j, id) ==
  IF j >= Len(codeNodes) THEN [kids |-> kids, nid |-> id]
  ELSE CodeLoop(addOrReplaceInDOM(kids,
                  TextNode(id, codeNodes[j + 1].from, codeNodes[j + 1].to), j),
                codeNodes, j + 1, id + 1)

\* context.text.substring(infoNode.from, infoNode.to), <<>> without CodeInfo
CodeInfoOf(node) ==
  IF \E j \in 1..Len(node.kids) : node.kids[j].name = "CodeInfo"
    THEN LET infoNode == node.kids[CHOOSE j \in 1..Len(node.kids) :
                                     /\ node.kids[j].name = "CodeInfo"
                                     /\ \A i \in 1..(j - 1) : node.kids[i].name # "CodeInfo"]
         IN <<infoNode.from, infoNode.to>>
    ELSE <<>>

\* createBlock(schema, "code_block"); if (info) pre.classList.add(...)
createPre(node, id) ==
  [el |-> [createBlock("code_block", 0, id).el EXCEPT !.cls = CodeInfoOf(node)],
   nid |-> createBlock("code_block", 0, id).nid]

\* the pass after the code nodes were put into the code element of c.el
CodeFilled(m, i, c, r) ==
  Used([m EXCEPT !.dom = addOrReplaceInDOM(m.dom,
                           [c.el EXCEPT !.kids = <<[c.el.kids[1] EXCEPT !.kids = r.kids]>>], i),
                 !.nid = r.nid],
       [c.el EXCEPT !.kids = <<[c.el.kids[1] EXCEPT !.kids = r.kids]>>])

CodeBlockInto(m, codeNodes, c) ==
  CodeFilled(m, m.blk.index, c,
             CodeLoop(c.el.kids[1].kids, codeNodes,
                      Max(Len(c.el.kids[1].kids), 1) - 1, c.nid))

CodeBlockRenderer(m, node) ==
  LET codeNodes == SelectSeq(node.kids, LAMBDA n : n.name = "CodeText")
      el == item(m.dom, m.blk.index)
  IN IF codeNodes = <<>> THEN m
     ELSE CodeBlockInto(m, codeNodes,
                        IF el.tag = "pre" THEN [el |-> el, nid |-> m.nid]
                        ELSE createPre(node, m.nid))

\* the outcome r of a nested renderer that left the target alone; tops are the
\* elements the nested renderers so far have put in the place of the current
\* top-level block element, in order
WithTops(r, tops) == [kids |-> r.kids, nid |-> r.nid, err |-> r.err, tops |-> tops]

\* HorizontalRuleRenderer for a child of a list item: it takes the context
\* only, so parent and child are dropped and the new hr goes where
\* context.getBlockElement() is; the li keeps its children
NestedRule(kids, id, tops) ==
  [kids |-> kids, nid |-> createBlock("horizontal_rule", 0, id).nid, err |-> "",
   tops |-> Append(tops, createBlock("horizontal_rule", 0, id).el)]

\* renderBlock(context, children[i], el, el.children[i])
NestedBlock(kids, node, j, id, tops) ==
  IF LezerTagMap(node.name) = "horizontal_rule"
    THEN NestedRule(kids, id, tops)
    ELSE WithTops(NestedParagraph(kids, node, j, id), tops)

\* ListRenderer.renderListItem: the children of the li afterwards
RECURSIVE renderListItem(_, _, _, _, _)
\* the loop goes on after the child with outcome r unless it threw
ListItemNext(r, nodes, j) ==
  IF r.err # "" THEN r ELSE renderListItem(r.kids, nodes, j + 1, r.nid, r.tops)

renderListItem(kids, nodes, j, id, tops) ==
  IF j >= Len(nodes) THEN [kids |-> kids, nid |-> id, err |-> "", tops |-> tops]
  ELSE ListItemNext(NestedBlock(kids, nodes[j + 1], j, id, tops), nodes, j)

\* the loop of ListRenderer.render over the list items from domIndex on
RECURSIVE ListLoop(_, _, _, _, _)
\* the list after the item at index j, whose li is c.el, was rendered with
\* outcome r
ListLoopNext(kids, items, j, c, r) ==
  IF r.err # ""
    THEN [kids |-> addOrReplaceInDOM(kids, [c.el EXCEPT !.kids = r.kids], j),
          nid |-> r.nid, err |-> r.err, tops |-> r.tops]
    ELSE ListLoop(addOrReplaceInDOM(kids, [c.el EXCEPT !.kids = r.kids], j),
                  items, j + 1, r.nid, r.tops)

\* the li at index j: the one there, or a new one
ListLoopItem(kids, items, j, c, tops) ==
  ListLoopNext(kids, items, j, c,
               renderListItem(c.el.kids, items[j + 1].kids,
                              Max(Len(c.el.kids), 1) - 1, c.nid, tops))

ListLoop(kids, items, j, id, tops) ==
  IF j >= Len(items) THEN [kids |-> kids, nid |-> id, err |-> "", tops |-> tops]
  ELSE ListLoopItem(kids, items, j,
                    IF item(kids, j).tag = "li" THEN [el |-> item(kids, j), nid |-> id]
                    ELSE createBlock("list_item", 0, id),
                    tops)

\* the children of the target after each element of tops was, in turn, put in
\* the place of the element at index i: addOrReplaceInDOM(hr, getBlockElement())
RECURSIVE ApplyTops(_, _, _)
ApplyTops(dom, tops, i) ==
  IF tops = <<>> THEN dom
  ELSE ApplyTops(addOrReplaceInDOM(dom, Head(tops), i), Tail(tops), i)

\* the pass after the items of the list element c.el were rendered with outcome r
ListRendered(m, i, list, r) ==
  Used([m EXCEPT !.dom = ApplyTops(addOrReplaceInDOM(m.dom, list, i), r.tops, i),
                 !.nid = r.nid, !.err = r.err], list)

ListRenderInto(m, node, c, r) ==
  ListRendered(m, m.blk.index,
               [c.el EXCEPT !.kids = r.kids,
                            !.start = c.el.start \/ (c.el.tag = "ol" /\ node.kids # <<>>)],
               r)

ListRenderAt(m, node, c) ==
  ListRenderInto(m, node, c,
                 ListLoop(c.el.kids, node.kids, Max(Len(c.el.kids), 1) - 1, c.nid, <<>>))

ListRender(m, node) ==
  ListRenderAt(m, node,
               IF item(m.dom, m.blk.index).tag \in {"ol", "ul"}
                 THEN [el |-> item(m.dom, m.blk.index), nid |-> m.nid]
                 ELSE createBlock(IF node.name = "OrderedList" THEN "ordered_list"
                                  ELSE "bullet_list", 0, m.nid))

\* renderBlock(context, block) at top level: CommentBlock returns at once; a
\* kind without a render function falls back to the paragraph renderer
renderBlock(m, block) ==
  LET type == LezerTagMap(block.name)
      d == [m EXCEPT !.disp = Append(m.disp, m.blk.index)]
  IN CASE block.name = "CommentBlock" -> m
       [] type = "heading" -> HeadingsRenderer(d, block)
       [] type = "code_block" -> CodeBlockRenderer(d, block)
       [] type = "horizontal_rule" -> HorizontalRuleRenderer(d, block)
       [] type \in {"ordered_list", "bullet_list"} -> ListRender(d, block)
       [] OTHER -> ParagraphRenderer(d, block)

\* ------------------------------------------------------- the structural pass
NewPass(dom, id, b, h) ==
  [dom |-> dom, nid |-> id, blk |-> b, htag |-> h, err |-> "",
   synced |-> FALSE, mismatch |-> -2, disp |-> <<>>, used |-> <<>>, cleaned |-> <<>>]

\* the heading entry's tag after getNodeSpec was called on nodes[1..k]
RECURSIVE SpecTagAfter(_, _, _)
SpecTagAfter(htag, nodes, k) ==
  IF k = 0 THEN htag
  ELSE getNodeSpec(SpecTagAfter(htag, nodes, k - 1), nodes[k]).htag

\* the tag syncDOM / a renderer expects for a node
ExpectedTag(node) == getNodeSpec("h1", node).tag

\* mismatches.indexOf(true), 0-based, -1 when no index mismatches
firstMismatch(dom, nodes) ==
  LET bad == {i \in 1..Len(nodes) : item(dom, i - 1).tag # ExpectedTag(nodes[i])}
  IN IF bad = {} THEN -1 ELSE (CHOOSE i \in bad : \A j \in bad : i <= j) - 1

SpliceKeepNone(len, start) == 0

\* Array.prototype.splice(start) keeps the elements before start; a negative
\* start counts from the end
SpliceKeep(len, start) == IF start < 0 THEN Max(len + start, 0) ELSE Min(start, len)

\* syncDOM(children): reading spec.tag of a kind without schema entry throws
\* a TypeError before anything is removed
syncDOM(m, nodes) ==
  LET unknown == {i \in 1..Len(nodes) : ~HasSpec(nodes[i].name)}
  IN IF unknown # {}
       THEN LET u == CHOOSE i \in unknown : \A j \in unknown : i <= j
            IN [m EXCEPT !.err = "TypeError", !.synced = TRUE,
                         !.htag = SpecTagAfter(m.htag, nodes, u - 1)]
       ELSE LET fm == firstMismatch(m.dom, nodes)
            IN [m EXCEPT !.dom = SubSeq(m.dom, 1, SpliceKeep(Len(m.dom), fm)),
                         !.synced = TRUE, !.mismatch = fm,
                         !.htag = SpecTagAfter(m.htag, nodes, Len(nodes))]

\* while (index < children.length) { setBlockState; renderBlock; index += 1 }
RECURSIVE renderLoop(_, _, _)
renderLoop(m, children, index) ==
  IF index >= Len(children) \/ m.err # "" THEN m
  ELSE renderLoop(renderBlock([m EXCEPT !.blk = blockState(index, children[index + 1])],
                              children[index + 1]),
                  children, index + 1)

\* the entries of schemaSpec.blocks with a cleanup hook
HasCleanup(type) == type \in {"code_block", "bullet_list"}

\* spec.cleanup(context, lastBlock, el): the hook releases what the kind held
\* while its block was growing; the target's tree stays as it is
cleanupHook(m, lastBlockId, el) ==
  [m EXCEPT !.cleaned = Append(m.cleaned, <<lastBlockId, el.id>>)]

\* if (spec.cleanup) { el = target.children.item(lastBlockId); if (el) ... }
cleanupOf(m, lastBlock, lastBlockId) ==
  IF HasCleanup(LezerTagMap(lastBlock.name)) /\ item(m.dom, lastBlockId) # Nil
    THEN cleanupHook([m EXCEPT !.htag = getNodeSpec(m.htag, lastBlock).htag],
                     lastBlockId, item(m.dom, lastBlockId))
    ELSE [m EXCEPT !.htag = getNodeSpec(m.htag, lastBlock).htag]

\* "If we have changed the block node, then cleanup the previous node":
\* lastBlockId && lastBlockId < index - 1, where 0 and undefined are falsy
cleanup(m, children, lastBlockId, index) ==
  IF lastBlockId > 0 /\ lastBlockId < index - 1
    THEN IF lastBlockId >= Len(children) \/ ~HasSpec(children[lastBlockId + 1].name)
           THEN [m EXCEPT !.err = "TypeError"]
           ELSE cleanupOf(m, children[lastBlockId + 1], lastBlockId)
    ELSE m

renderDOMSyncFirst(m, children) ==
  LET lastBlockId == m.blk.index
      index0 == Max(Len(m.dom) - 1, 0)
      sync == index0 # Len(children) - 1
      s == IF sync THEN syncDOM(m, children) ELSE m
  IN IF s.err # "" THEN s
     ELSE LET index == IF sync THEN Len(s.dom) ELSE index0
              r == renderLoop(s, children, index)
          IN IF r.err # "" THEN r
             ELSE cleanup(r, children, lastBlockId, Max(index, Len(children)))

\* renderDOM() with a target that resolves to an element
renderDOM(m, children) ==
  IF children = <<>> THEN m
  ELSE LET lastBlockId == m.blk.index
           index0 == Max(Len(m.dom) - 1, 0)
           sync == index0 # Len(children) - 1
           s == IF sync THEN syncDOM(m, children) ELSE m
       IN IF s.err # "" THEN s
          ELSE LET index == IF sync THEN Len(s.dom) ELSE index0
                   r == renderLoop(s, children, index)
               IN IF r.err # "" THEN r
                  ELSE cleanup(r, children, lastBlockId, Max(index, Len(children)))

\* MarkdownRenderer.render(target, text) into an empty target: the target
\* setter runs renderDOM, then render() calls renderDOM once more
renderAgain(first, children) ==
  IF first.err # "" THEN first
  ELSE renderDOM(NewPass(first.dom, first.nid, first.blk, first.htag), children)

renderTwice(children) ==
  renderAgain(renderDOM(NewPass(<<>>, 1, NoBlock, "h1"), children), children)

\* --------------------------------------------------------------------- state
VARIABLES
  text,        \* the host's document text, a sequence of tokens
  hasSetter,   \* whether a text mutator (setText) was given
  tree,        \* this.tree: the top-level children of the syntax tree
  fragEnd,     \* this.fragments.at(-1).to; -1 while fragments is empty
  target,      \* the element state.target resolves to now; 0 for none
  doms,        \* the children of every host element that may be a target
  nid,         \* next fresh node identity
  blk,         \* state.block: the block state of the last rendered child
  htag,        \* schema.blocks.heading.tag
  last,        \* what the last operation did
  sent,        \* the initial text followed by every chunk appended so far
  link         \* a link node handed to renderLinkMark, and what came back

vars ==
  <<text, hasSetter, tree, fragEnd, target, doms, nid, blk, htag, last, sent, link>>

Targets == 1..NumTargets

\* op       the operation               t       the target the pass ran on
\* pass     whether renderDOM ran       err     the error thrown, "" if none
\* setText  whether the text mutator was invoked
\* synced, mismatch, disp, used, cleaned: as in the pass record
\* chunk    the chunk of an append that got past the fragments check
\* pre      whether the host had put that chunk into its text before the call
\* changed  the edited ranges handed to TreeFragment.applyChanges
NoOp ==
  [op |-> "new", t |-> 0, pass |-> FALSE, err |-> "", setText |-> FALSE,
   synced |-> FALSE, mismatch |-> -2, disp |-> <<>>, used |-> <<>>, cleaned |-> <<>>,
   chunk |-> <<>>, pre |-> FALSE, changed |-> <<>>]

PassOp(op, t, m) ==
  [op |-> op, t |-> t, pass |-> TRUE, err |-> m.err, setText |-> FALSE,
   synced |-> m.synced, mismatch |-> m.mismatch, disp |-> m.disp, used |-> m.used,
   cleaned |-> m.cleaned,
   chunk |-> <<>>, pre |-> FALSE, changed |-> <<>>]

\* A URL text: its scheme, "" for a text without one (a relative reference),
\* and whether the rest of it is well-formed
UrlText(scheme, ok) == [scheme |-> scheme, ok |-> ok]

NoUrl == UrlText("none", FALSE)

\* no link was handed over
NoLink == [node |-> NoNode, url |-> NoUrl, page |-> "", done |-> FALSE, out |-> Nil,
           href |-> NoUrl, title |-> <<>>, err |-> ""]

\* the initial texts: empty, or one heading of any level
InitTexts == {<<>>} \cup {<<Tok("open", k)>> : k \in HeadingKinds}

\* new MarkdownRenderer(parser, tree, fragments, text, setText): init() and
\* render() pass TreeFragment.addTree(tree), a direct caller may pass []
Init ==
  /\ text \in InitTexts
  /\ hasSetter \in BOOLEAN
  /\ tree = Parse(text)
  /\ fragEnd \in {Len(text), -1}
  /\ target = 0
  /\ doms = [t \in Targets |-> <<>>]
  /\ nid = 1
  /\ blk = NoBlock
  /\ htag = "h1"
  /\ last = NoOp
  /\ sent = text
  /\ link = NoLink

\* the variables a pass over children on target t leaves behind; o is the
\* operation's record apart from the pass
RunPass(o, t, children) ==
  \E m \in {renderDOM(NewPass(doms[t], nid, blk, htag), children)} :
     /\ doms' = [doms EXCEPT ![t] = m.dom]
     /\ nid' = m.nid
     /\ blk' = m.blk
     /\ htag' = m.htag
     /\ last' = [PassOp(o.op, t, m) EXCEPT !.setText = o.setText,
                                           !.chunk = o.chunk, !.pre = o.pre,
                                           !.changed = o.changed]

\* set target(t): stores the target and renders if it resolves to an element
\* (init(target, ...) and render(target, ...) end with this assignment)
setTarget(t) ==
  /\ target' = t
  /\ IF t # 0
       THEN RunPass([NoOp EXCEPT !.op = "setTarget"], t, tree)
       ELSE /\ last' = [NoOp EXCEPT !.op = "setTarget"]
            /\ UNCHANGED <<doms, nid, blk, htag>>
  /\ UNCHANGED <<text, hasSetter, tree, fragEnd, sent, link>>

\* the host's target accessor starts to resolve to another element, or to
\* none; the renderer is not told
resolve(t) ==
  /\ t # target
  /\ target' = t
  /\ last' = [NoOp EXCEPT !.op = "resolve"]
  /\ UNCHANGED <<text, hasSetter, tree, fragEnd, doms, nid, blk, htag, sent, link>>

SpliceAppend(txt, from, to, chunk) == txt \o chunk

\* text.slice(0, from) + chunk + text.slice(to)
Splice(txt, from, to, chunk) ==
  SubSeq(txt, 1, Min(from, Len(txt))) \o chunk \o SubSeq(txt, to + 1, Len(txt))

\* the host's text when append is called: a host without mutator has put the
\* chunk at the end of its text before the call, a host with one may have
HostText(chunk, pre) == IF pre THEN text \o chunk ELSE text

\* the operation record of an append that got past the fragments check
\* const changed = [{ fromA: from, toA: to, fromB: from, toB: from + chunk.length }]
\* with from = this.fragments.at(-1).to and to = from + chunk.length
changed(from, chunk) ==
  <<[fromA |-> from, toA |-> from + Len(chunk), fromB |-> from,
     toB |-> from + Len(chunk)]>>

AppendOp(chunk, pre) ==
  [NoOp EXCEPT !.op = "append", !.setText = hasSetter, !.chunk = chunk, !.pre = pre,
               !.changed = changed(fragEnd, chunk)]

appendSetTextFirst(chunk, pre) ==
  /\ text' = HostText(chunk, pre) \o chunk
  /\ IF fragEnd = -1
       THEN /\ last' = [NoOp EXCEPT !.op = "append", !.err = "AST is not instantiated",
                                    !.setText = hasSetter]
            /\ UNCHANGED <<tree, fragEnd, doms, nid, blk, htag, sent>>
       ELSE /\ tree' = Parse(text')
            /\ fragEnd' = Len(text')
            /\ sent' = sent \o chunk
            /\ IF target # 0
                 THEN RunPass(AppendOp(chunk, pre), target, tree')
                 ELSE /\ last' = AppendOp(chunk, pre)
                      /\ UNCHANGED <<doms, nid, blk, htag>>

appendKeepFragments(chunk, pre) ==
  IF fragEnd = -1
    THEN /\ last' = [NoOp EXCEPT !.op = "append", !.err = "AST is not instantiated"]
         /\ UNCHANGED <<text, tree, fragEnd, doms, nid, blk, htag, sent>>
    ELSE /\ text' = IF hasSetter
                      THEN Splice(HostText(chunk, pre), fragEnd, fragEnd + Len(chunk), chunk)
                      ELSE HostText(chunk, pre)
         /\ tree' = Parse(text')
         /\ fragEnd' = fragEnd
         /\ sent' = sent \o chunk
         /\ IF target # 0
              THEN RunPass(AppendOp(chunk, pre), target, tree')
              ELSE /\ last' = AppendOp(chunk, pre)
                   /\ UNCHANGED <<doms, nid, blk, htag>>

\* append(chunk)
append(chunk, pre) ==
  IF fragEnd = -1
    THEN /\ last' = [NoOp EXCEPT !.op = "append", !.err = "AST is not instantiated"]
         /\ UNCHANGED <<text, tree, fragEnd, doms, nid, blk, htag, sent>>
    ELSE /\ LET from == fragEnd
                to == from + Len(chunk)
            IN text' = IF hasSetter THEN Splice(HostText(chunk, pre), from, to, chunk)
                       ELSE HostText(chunk, pre)
         /\ tree' = Parse(text')
         /\ fragEnd' = Len(text')
         /\ sent' = sent \o chunk
         /\ IF target # 0
              THEN RunPass(AppendOp(chunk, pre), target, tree')
              ELSE /\ last' = AppendOp(chunk, pre)
                   /\ UNCHANGED <<doms, nid, blk, htag>>

SetTarget == nid < MaxId /\ \E t \in Targets \cup {0} : setTarget(t)

Resolve == \E t \in Targets \cup {0} : resolve(t)

Append_ ==
  /\ nid < MaxId
  /\ \E chunk \in ChunksFrom(tree, Len(text), Min(MaxChunk, MaxLen - Len(text))) :
       /\ chunk # <<>>
       /\ \E pre \in (IF hasSetter THEN BOOLEAN ELSE {TRUE}) : append(chunk, pre)
       /\ UNCHANGED <<hasSetter, target, link>>

Next == SetTarget \/ Resolve \/ Append_

Spec == Init /\ [][Next]_vars

\* ------------------------------------------- a target that holds content
\* MarkdownRenderer.render(target, prior) has run, and a new renderer is made
\* for the same target element with another text: render(target, text) and
\* init(target, ...) make a new MarkdownRenderer on every call. The schema is
\* the module's schemaSpec object, which the renderers share.
Texts(n) == ChunksFrom(<<>>, 0, n)

ReInit ==
  /\ text \in Texts(MaxLen - 1)
  /\ hasSetter = FALSE
  /\ tree = Parse(text)
  /\ fragEnd = Len(text)
  /\ target = 0
  /\ \E prior \in Texts(MaxPrior) :
       \E first \in {renderTwice(Parse(prior))} :
         /\ first.err = ""
         /\ doms = [t \in Targets |-> IF t = 1 THEN first.dom ELSE <<>>]
         /\ nid = first.nid
         /\ htag = first.htag
  /\ blk = NoBlock
  /\ last = NoOp
  /\ sent = text
  /\ link = NoLink

\* renderer.target = target, on the target that holds content
ReSetTarget == nid < MaxReId /\ setTarget(1)

ReNext == ReSetTarget

ReSpec == ReInit /\ [][ReNext]_vars

\* ------------------------------------------------------ a fenced code block
\* init(target, text) on a document that begins with a fenced code block: the
\* fence alone, the fence with an info string, or both with code text; the
\* document then grows by appends.
FenceTexts ==
  {<<Tok("open", "FencedCode")>>,
   <<Tok("open", "FencedCode"), Tok("info", "-")>>,
   <<Tok("open", "FencedCode"), Tok("info", "-"), Tok("item", "-")>>}

FenceInit ==
  /\ text \in FenceTexts
  /\ hasSetter = FALSE
  /\ tree = Parse(text)
  /\ fragEnd = Len(text)
  /\ target = 0
  /\ doms = [t \in Targets |-> <<>>]
  /\ nid = 1
  /\ blk = NoBlock
  /\ htag = "h1"
  /\ last = NoOp
  /\ sent = text
  /\ link = NoLink

FenceSetTarget == nid < MaxReId /\ setTarget(1)

FenceAppend ==
  /\ nid < MaxReId
  /\ \E chunk \in ChunksFrom(tree, Len(text), Min(MaxChunk, MaxFenceLen - Len(text))) :
       /\ chunk # <<>>
       /\ append(chunk, TRUE)
       /\ UNCHANGED <<hasSetter, target, link>>

FenceNext == FenceSetTarget \/ FenceAppend

FenceSpec == FenceInit /\ [][FenceNext]_vars

\* ------------------------------------------------ blocks nested in list items
\* init(target, text) on a document of bullet lists whose items hold paragraphs
\* and thematic breaks; the document then grows by appends.
NestInit ==
  /\ text \in NestChunksFrom(<<>>, 0, MaxChunk)
  /\ hasSetter = FALSE
  /\ tree = Parse(text)
  /\ fragEnd = Len(text)
  /\ target = 0
  /\ doms = [t \in Targets |-> <<>>]
  /\ nid = 1
  /\ blk = NoBlock
  /\ htag = "h1"
  /\ last = NoOp
  /\ sent = text
  /\ link = NoLink

NestSetTarget == nid < MaxReId /\ setTarget(1)

NestAppend ==
  /\ nid < MaxReId
  /\ \E chunk \in NestChunksFrom(tree, Len(text), Min(MaxChunk, MaxNestLen - Len(text))) :
       /\ chunk # <<>>
       /\ append(chunk, TRUE)
       /\ UNCHANGED <<hasSetter, target, link>>

NestNext == NestSetTarget \/ NestAppend

NestSpec == NestInit /\ [][NestNext]_vars

\* ------------------------------------------------- inline content of a block
\* The parser's output for a block with inline markup. An item is a plain
\* character ("T"), a hard break, an escape (two characters), a raw HTML tag,
\* or a nestable mark around further items; every delimiter is one unit long.
InlineAtoms == {"T", "HardBreak", "Escape", "HTMLTag"}

InnerKinds == {"Superscript"}

Item(k, inner) == [k |-> k, inner |-> inner]

SeqsOf(S, n) == UNION {[1..m -> S] : m \in 1..n}

DelimOf(kind) ==
  CASE kind \in {"StrongEmphasis", "Emphasis"} -> "EmphasisMark"
    [] kind = "Strikethrough" -> "StrikethroughMark"
    [] kind = "Subscript" -> "SubscriptMark"
    [] kind = "Superscript" -> "SuperscriptMark"
    [] kind = "InlineCode" -> "CodeMark"

\* the syntax nodes of the items laid out from offset p, and the offset after
RECURSIVE Lay(_, _)
LayItem(it, p) ==
  CASE it.k = "T" -> [nodes |-> <<>>, to |-> p + 1]
    [] it.k = "HardBreak" -> [nodes |-> <<Node("HardBreak", p, p + 1, <<>>)>>, to |-> p + 1]
    [] it.k = "Escape" -> [nodes |-> <<Node("Escape", p, p + 2, <<>>)>>, to |-> p + 2]
    [] it.k = "HTMLTag" -> [nodes |-> <<Node("HTMLTag", p, p + 1, <<>>)>>, to |-> p + 1]
    [] OTHER ->
         LET body == Lay(it.inner, p + 1)
             open == Node(DelimOf(it.k), p, p + 1, <<>>)
             close == Node(DelimOf(it.k), body.to, body.to + 1, <<>>)
         IN [nodes |-> <<Node(it.k, p, body.to + 1, (<<open>> \o body.nodes) \o <<close>>)>>,
             to |-> body.to + 1]

Lay(items, p) ==
  IF items = <<>> THEN [nodes |-> <<>>, to |-> p]
  ELSE LET h == LayItem(Head(items), p)
           r == Lay(Tail(items), h.to)
       IN [nodes |-> h.nodes \o r.nodes, to |-> r.to]

Items0 == {Item(a, <<>>) : a \in InlineAtoms}

Items1 == Items0 \cup {Item(k, s) : k \in InnerKinds, s \in SeqsOf(Items0, MaxItems)}

Items2 == Items0 \cup {Item(k, s) : k \in NestableKinds, s \in SeqsOf(Items1, MaxItems)}

\* a mark that holds two marks with a plain character between them
SpacedMarks ==
  Item("Emphasis", <<Item("Superscript", <<Item("T", <<>>)>>), Item("T", <<>>),
                     Item("Superscript", <<Item("T", <<>>)>>)>>)

\* one item, alone or after a plain character
InlineDocs ==
  ({<<x>> : x \in Items2} \cup {<<Item("T", <<>>), x>> : x \in Items2})
    \cup {<<SpacedMarks>>}

\* the tree of a document that is one block of the kind with the inline items;
\* a heading starts with its header mark and a space
InlineTree(kind, doc) ==
  IF kind = "Paragraph"
    THEN LET body == Lay(doc, 0) IN <<Node(kind, 0, body.to, body.nodes)>>
    ELSE LET body == Lay(doc, 2)
         IN <<Node(kind, 0, body.to, <<Node("HeaderMark", 0, 1, <<>>)>> \o body.nodes)>>

InlineTrees == {InlineTree(k, d) : k \in {"Paragraph", "ATXHeading1"}, d \in InlineDocs}

\* new MarkdownRenderer(parser, tree, fragments, text) over a text with inline
\* markup, no target set yet
InlineInit ==
  /\ tree \in InlineTrees
  /\ text = [i \in 1..tree[1].to |-> Tok("grow", "-")]
  /\ sent = text
  /\ hasSetter = FALSE
  /\ fragEnd = Len(text)
  /\ target = 0
  /\ doms = [t \in Targets |-> <<>>]
  /\ nid = 1
  /\ blk = NoBlock
  /\ htag = "h1"
  /\ last = NoOp
  /\ link = NoLink

InlineNext == SetTarget

InlineSpec == InlineInit /\ [][InlineNext]_vars

\* ------------------------------------------- appends to an inline region
\* One paragraph with one inline item; the host appends plain characters to
\* its text. MaxTail bounds the characters appended.
MaxTail == 2

TailTrees == {InlineTree("Paragraph", <<x>>) : x \in Items1}

\* the plain characters after the last inline node of the paragraph
TailLen == IF tree[1].kids = <<>> THEN tree[1].to ELSE tree[1].to - Last(tree[1].kids).to

\* parser.parse(text, fragments) after plain characters were appended: the
\* paragraph reaches to the end of the text, its inline nodes are as before
ParseTail(tr, txt) == <<[tr[1] EXCEPT !.to = Len(txt)]>>

TailInit ==
  /\ tree \in TailTrees
  /\ text = [i \in 1..tree[1].to |-> Tok("grow", "-")]
  /\ sent = text
  /\ hasSetter = FALSE
  /\ fragEnd = Len(text)
  /\ target = 0
  /\ doms = [t \in Targets |-> <<>>]
  /\ nid = 1
  /\ blk = NoBlock
  /\ htag = "h1"
  /\ last = NoOp
  /\ link = NoLink

\* an append that leaves the end offset of the fragments where it was
appendPlainKeepOffset(chunk) ==
  /\ text' = HostText(chunk, TRUE)
  /\ tree' = ParseTail(tree, text')
  /\ fragEnd' = fragEnd
  /\ sent' = sent \o chunk
  /\ IF target # 0
       THEN RunPass(AppendOp(chunk, TRUE), target, tree')
       ELSE /\ last' = AppendOp(chunk, TRUE)
            /\ UNCHANGED <<doms, nid, blk, htag>>

\* append(chunk) of plain characters by a host without mutator, on a renderer
\* whose fragments exist
appendPlain(chunk) ==
  /\ text' = HostText(chunk, TRUE)
  /\ tree' = ParseTail(tree, text')
  /\ fragEnd' = Len(text')
  /\ sent' = sent \o chunk
  /\ IF target # 0
       THEN RunPass(AppendOp(chunk, TRUE), target, tree')
       ELSE /\ last' = AppendOp(chunk, TRUE)
            /\ UNCHANGED <<doms, nid, blk, htag>>

TailAppend ==
  /\ nid < MaxId /\ TailLen < MaxTail
  /\ \E n \in 1..(MaxTail - TailLen) : appendPlain([i \in 1..n |-> Tok("grow", "-")])
  /\ UNCHANGED <<hasSetter, target, link>>

TailNext == SetTarget \/ TailAppend

TailSpec == TailInit /\ [][TailNext]_vars

\* ------------------------------------------------------- the inline patcher
\* One paragraph whose text is a sequence of characters: a plain character
\* "t" or one of two delimiter characters. The parser pairs a delimiter with
\* the nearest open delimiter of its kind that has content after it; the open
\* delimiters in between, and those never closed, are plain text.
PatchChars == {"t", "*", "^"}

MarkOf(c) == IF c = "*" THEN "Emphasis" ELSE "Superscript"

\* an open delimiter d at offset at, and the marks completed after it
PFrame(d, at, nodes) == [d |-> d, at |-> at, nodes |-> nodes]

\* the marks of the frames k.. of the stack, in source order
RECURSIVE FlatFrom(_, _)
FlatFrom(stack, k) ==
  IF k > Len(stack) THEN <<>> ELSE stack[k].nodes \o FlatFrom(stack, k + 1)

\* the frame the delimiter c at offset p closes, 0 when it closes none
CloseAt(stack, c, p) ==
  LET ks == {k \in 2..Len(stack) : stack[k].d = c /\ stack[k].at < p - 1}
  IN IF ks = {} THEN 0 ELSE CHOOSE k \in ks : \A j \in ks : j <= k

\* the stack after the mark that begins with frame k and ends at offset p
Closed(stack, c, p, k) ==
  Append(SubSeq(stack, 1, k - 2),
         [stack[k - 1] EXCEPT
            !.nodes = Append(stack[k - 1].nodes,
                        Node(MarkOf(c), stack[k].at, p + 1,
                             (<<Node(DelimOf(MarkOf(c)), stack[k].at, stack[k].at + 1, <<>>)>>
                                \o FlatFrom(stack, k))
                               \o <<Node(DelimOf(MarkOf(c)), p, p + 1, <<>>)>>))])

PStep(stack, c, p) ==
  IF c = "t" THEN stack
  ELSE IF CloseAt(stack, c, p) > 0 THEN Closed(stack, c, p, CloseAt(stack, c, p))
  ELSE Append(stack, PFrame(c, p, <<>>))

RECURSIVE PStack(_, _)
PStack(chars, k) ==
  IF k = 0 THEN <<PFrame("", 0, <<>>)>>
  ELSE PStep(PStack(chars, k - 1), chars[k], k - 1)

\* parser.parse(text): the paragraph of the text, no block for an empty text
PatchParse(chars) ==
  IF chars = <<>> THEN <<>>
  ELSE <<Node("Paragraph", 0, Len(chars), FlatFrom(PStack(chars, Len(chars)), 1))>>

\* The patcher works on the children of the block's element and the
\* FormattingNode children of the block. Element identity is not tracked here.
\* a mark element, stamped with the span it was created for
Stamped(tag, kids, from, to) ==
  [kids |-> kids, txt |-> <<>>, tag |-> tag, id |-> 0, start |-> FALSE, cls |-> <<>>,
   origin |-> <<from, to>>]

\* the FormattingNode children of a mark: its child nodes, or one text leaf
\* over its span without the delimiters
FKids(fn) ==
  IF fn.kids # <<>> THEN fn.kids
  ELSE <<textNodeFT(IF Len(getInstChildren(fn.node)) > 0
                      THEN getInstChildren(fn.node)[1].to ELSE fn.from,
                    IF Len(getInstChildren(fn.node)) > 1
                      THEN getInstChildren(fn.node)[Len(getInstChildren(fn.node))].from
                      ELSE fn.to)>>

\* the node created from scratch for a FormattingNode
RECURSIVE Fresh(_)
Fresh(fn) ==
  IF fn.node = NoNode THEN TextNode(0, fn.from, fn.to)
  ELSE Stamped(markTag(LezerTagMap(fn.node.name)),
               [j \in 1..Len(FKids(fn)) |-> Fresh(FKids(fn)[j])], fn.from, fn.to)

\* matching rule: a text leaf matches a text unit, a mark node an element
\* with the schema tag of its kind
Matches(o, fn) ==
  IF fn.node = NoNode THEN o.tag = "#text"
  ELSE o.tag = markTag(LezerTagMap(fn.node.name))

\* a fast-path test on the length of the stamped span alone
SpanEqLength(o, fn) == o.origin[2] - o.origin[1] = fn.to - fn.from

\* fast-path test: the stamped span equals the span of the new node
SpanEq(o, fn) == o.origin = <<fn.from, fn.to>>

RemoveAt(old, i) == SubSeq(old, 1, i - 1) \o SubSeq(old, i + 1, Len(old))

\* a configuration of the merge: the children and the two cursors
Cfg(old, i, j) == [old |-> old, i |-> i, j |-> j]

\* the outcome r of the rest of a merge, after a step taken from c
Logged(r, c) == [r EXCEPT !.log = <<c>> \o @]

\* two-pointer merge of the children old (cursor i) with the new nodes ns
\* (cursor j); skips collects the skipped element with the node matched to it,
\* log the configurations the merge of these children went through
RECURSIVE Merge(_, _, _, _, _)
\* the merge after the mark at i was updated in place with outcome r
Recursed(old, ns, i, j, r) ==
  Merge([old EXCEPT ![i].kids = r.kids], ns, i + 1, j + 1, r.skips)

UpdateInPlace(old, ns, i, j, skips) ==
  IF ns[j].node = NoNode
    THEN Merge([old EXCEPT ![i].txt = <<ns[j].from, ns[j].to>>], ns, i + 1, j + 1, skips)
  ELSE IF SpanEq(old[i], ns[j])
    THEN Merge(old, ns, i + 1, j + 1, skips \cup {[el |-> old[i], fn |-> ns[j]]})
  ELSE Recursed(old, ns, i, j, Merge(old[i].kids, FKids(ns[j]), 1, 1, skips))

\* a merge step that replaces the old child whenever it does not match
MergePairReplace(old, ns, i, j, skips) ==
  IF Matches(old[i], ns[j]) THEN UpdateInPlace(old, ns, i, j, skips)
  ELSE Merge([old EXCEPT ![i] = Fresh(ns[j])], ns, i + 1, j + 1, skips)

\* a step where both cursors have a child: update in place on a match, remove
\* the old child when the next one matches, else replace it
MergePair(old, ns, i, j, skips) ==
  IF Matches(old[i], ns[j]) THEN UpdateInPlace(old, ns, i, j, skips)
  ELSE IF i < Len(old) /\ Matches(old[i + 1], ns[j])
    THEN Merge(RemoveAt(old, i), ns, i, j, skips)
  ELSE Merge([old EXCEPT ![i] = Fresh(ns[j])], ns, i + 1, j + 1, skips)

Merge(old, ns, i, j, skips) ==
  CASE j > Len(ns) /\ i > Len(old) ->
         [kids |-> old, skips |-> skips, log |-> <<Cfg(old, i, j)>>]
    [] j > Len(ns) /\ i <= Len(old) ->
         Logged(Merge(RemoveAt(old, i), ns, i, j, skips), Cfg(old, i, j))
    [] j <= Len(ns) /\ i > Len(old) ->
         Logged(Merge(Append(old, Fresh(ns[j])), ns, i + 1, j + 1, skips),
                Cfg(old, i, j))
    [] OTHER -> Logged(MergePair(old, ns, i, j, skips), Cfg(old, i, j))

\* the target's children after the paragraph element p got the outcome r
PatchRendered(p, r) ==
  [dom |-> <<[p EXCEPT !.kids = r.kids]>>, skips |-> r.skips, log |-> r.log]

\* the structural pass over a tree of at most one paragraph, whose render
\* function patches the inline content of the paragraph's element
PatchRender(dom, tr) ==
  IF tr = <<>> THEN [dom |-> dom, skips |-> {}, log |-> <<>>]
  ELSE PatchRendered(IF dom # <<>> THEN dom[1] ELSE El(0, "p", <<>>),
                     Merge(IF dom # <<>> THEN dom[1].kids ELSE <<>>,
                           buildInlineNodeTree(tr[1]).kids, 1, 1, {}))

PatchOp(op, pass, skips, log) ==
  [op |-> op, pass |-> pass, skips |-> skips, log |-> log]

PatchInit ==
  /\ text = <<>>
  /\ tree = PatchParse(text)
  /\ sent = text
  /\ hasSetter = FALSE
  /\ fragEnd = 0
  /\ target = 0
  /\ doms = [t \in Targets |-> <<>>]
  /\ nid = 1
  /\ blk = NoBlock
  /\ htag = "h1"
  /\ last = PatchOp("new", FALSE, {}, <<>>)
  /\ link = NoLink

\* the pass, when there is a target, after the tree became tr
PatchPass(op, t, tr) ==
  IF t = 0
    THEN /\ doms' = doms
         /\ last' = PatchOp(op, FALSE, {}, <<>>)
    ELSE \E r \in {PatchRender(doms[t], tr)} :
           /\ doms' = [doms EXCEPT ![t] = r.dom]
           /\ last' = PatchOp(op, TRUE, r.skips, r.log)

PatchAppend ==
  /\ Len(text) < MaxPatchLen
  /\ \E chunk \in SeqsOf(PatchChars, Min(MaxChunk, MaxPatchLen - Len(text))) :
       /\ text' = text \o chunk
       /\ sent' = text'
       /\ tree' = PatchParse(text')
       /\ fragEnd' = Len(text')
       /\ PatchPass("append", target, tree')
  /\ UNCHANGED <<hasSetter, target, nid, blk, htag, link>>

\* renderer.target = element, or no element
PatchSetTarget ==
  /\ \E t \in {0, 1} :
       /\ target' = t
       /\ PatchPass("setTarget", t, tree)
  /\ UNCHANGED <<text, sent, tree, fragEnd, hasSetter, nid, blk, htag, link>>

PatchNext == PatchAppend \/ PatchSetTarget

PatchSpec == PatchInit /\ [][PatchNext]_vars

\* --------------------------------------------------------------------- links
AllowedProtocols == {"http:", "https:", "mailto:", "tel:"}

Schemes == AllowedProtocols \cup {"javascript:", "data:", ""}

\* the scheme of window.location.href
PageProtocols == {"http:", "https:", "file:", "about:"}

UrlTexts == {UrlText(sch, ok) : sch \in Schemes, ok \in BOOLEAN}

\* the href "#"
Hash == UrlText("#", TRUE)

URLProtocolNoBase(url, page) ==
  CASE ~url.ok -> "throws"
    [] url.scheme # "" -> url.scheme
    [] OTHER -> "throws"

\* new URL(url, window.location.href).protocol, "throws" when the constructor
\* throws: a text with a scheme is parsed on its own, a text without one is
\* resolved against the page, which an opaque page address does not allow
URLProtocol(url, page) ==
  CASE ~url.ok -> "throws"
    [] url.scheme # "" -> url.scheme
    [] page \in {"http:", "https:", "file:"} -> page
    [] OTHER -> "throws"

sanitizeUrl(url, page) ==
  IF URLProtocol(url, page) \in AllowedProtocols THEN url ELSE Hash

\* the items of a link label: plain characters and flat marks
LinkLabelItems ==
  {Item("T", <<>>)} \cup
  {Item(k, <<Item("T", <<>>)>>) : k \in {"StrongEmphasis", "Emphasis"}}

LinkLabels == {<<>>} \cup SeqsOf(LinkLabelItems, MaxItems)

LinkMarkAt(p) == Node("LinkMark", p, p + 1, <<>>)

\* "[URL]"
AutoLink == Node("Link", 0, 3, <<LinkMarkAt(0), Node("URL", 1, 2, <<>>), LinkMarkAt(2)>>)

\* "[label]"
LabelLink(label) ==
  LET body == Lay(label, 1)
  IN Node("Link", 0, body.to + 1, (<<LinkMarkAt(0)>> \o body.nodes) \o <<LinkMarkAt(body.to)>>)

\* "[label](URL)" and "[label](URL "title")"
FullLink(label, titled) ==
  LET body == Lay(label, 1)
      b == body.to
      title == IF titled THEN <<Node("LinkTitle", b + 4, b + 5, <<>>)>> ELSE <<>>
      end == IF titled THEN b + 5 ELSE b + 3
  IN Node("Link", 0, end + 1,
          (((<<LinkMarkAt(0)>> \o body.nodes)
              \o <<LinkMarkAt(b), LinkMarkAt(b + 1), Node("URL", b + 2, b + 3, <<>>)>>)
              \o title) \o <<LinkMarkAt(end)>>)

LinkNodes ==
  {AutoLink} \cup {LabelLink(l) : l \in LinkLabels}
    \cup {FullLink(l, t) : l \in LinkLabels, t \in BOOLEAN}

\* an element with the text of the span [from, to) as its content
WithText(id, tag, from, to) ==
  El(id, tag, IF from < to THEN <<TextNode(id + 1, from, to)>> ELSE <<>>)

renderLinkMarkByLength(node, url, page) ==
  LET children == node.kids
      urls == SelectSeq(children, LAMBDA n : n.name = "URL")
      titles == SelectSeq(children, LAMBDA n : n.name = "LinkTitle")
  IN IF Len(children) < 3
       THEN [out |-> WithText(1, "span", node.from, node.to), href |-> NoUrl,
             title |-> <<>>, err |-> ""]
     ELSE IF urls = <<>>
       THEN [out |-> Nil, href |-> NoUrl, title |-> <<>>, err |-> "TypeError"]
     ELSE LET label == IF children[2].name = "URL"
                         THEN <<children[2].from, children[2].to>>
                         ELSE <<children[1].to, children[2].from>>
          IN [out |-> WithText(1, markTag("link"), label[1], label[2]),
              href |-> sanitizeUrl(url, page),
              title |-> IF titles = <<>> THEN <<>> ELSE <<titles[1].from, titles[1].to>>,
              err |-> ""]

\* renderLinkMark(state, node); url is the text of the URL child's span
renderLinkMark(node, url, page) ==
  LET children == node.kids
      urls == SelectSeq(children, LAMBDA n : n.name = "URL")
      titles == SelectSeq(children, LAMBDA n : n.name = "LinkTitle")
  IN IF urls = <<>> \/ Len(children) < 3
       THEN [out |-> WithText(1, "span", node.from, node.to), href |-> NoUrl,
             title |-> <<>>, err |-> ""]
       ELSE LET label == IF children[2].name = "URL"
                           THEN <<children[2].from, children[2].to>>
                           ELSE <<children[1].to, children[2].from>>
            IN [out |-> WithText(1, markTag("link"), label[1], label[2]),
                href |-> sanitizeUrl(url, page),
                title |-> IF titles = <<>> THEN <<>> ELSE <<titles[1].from, titles[1].to>>,
                err |-> ""]

\* a link node of a text, the text of its URL span and the page's address;
\* the URL of "[URL]" is an autolink, which has a web scheme
LinkInit ==
  /\ link \in {[NoLink EXCEPT !.node = n, !.url = u, !.page = pg] :
                 n \in LinkNodes, u \in UrlTexts, pg \in PageProtocols}
  /\ link.node = AutoLink => link.url.scheme \in {"http:", "https:"}
  /\ text = <<>>
  /\ sent = <<>>
  /\ hasSetter = FALSE
  /\ tree = <<>>
  /\ fragEnd = 0
  /\ target = 0
  /\ doms = [t \in Targets |-> <<>>]
  /\ nid = 1
  /\ blk = NoBlock
  /\ htag = "h1"
  /\ last = NoOp

RenderLink ==
  /\ ~link.done
  /\ \E r \in {renderLinkMark(link.node, link.url, link.page)} :
       link' = [link EXCEPT !.done = TRUE, !.out = r.out, !.href = r.href,
                            !.title = r.title, !.err = r.err]
  /\ UNCHANGED <<text, hasSetter, tree, fragEnd, target, doms, nid, blk, htag, last, sent>>

LinkNext == RenderLink

LinkSpec == LinkInit /\ [][LinkNext]_vars

\* ------------------------------------------------------------------ claims
\* the target's children without node identities: tags, nesting, text spans
RECURSIVE Shape(_)
Shape(kids) ==
  [i \in 1..Len(kids) |->
     [tag |-> kids[i].tag, txt |-> kids[i].txt, kids |-> Shape(kids[i].kids)]]

Ids(kids) == {kids[i].id : i \in 1..Len(kids)}

\* MarkdownRenderer.render(target, text) into an empty target: the target
\* setter runs renderDOM, then render() calls renderDOM once more
render(children) ==
  LET first == renderDOM(NewPass(<<>>, 1, NoBlock, "h1"), children)
  IN IF first.err # "" THEN first
     ELSE renderDOM(NewPass(first.dom, first.nid, first.blk, first.htag), children)

\* every child's kind has a schema entry
AllResolved(children) == \A i \in 1..Len(children) : HasSpec(children[i].name)

\* element i has the tag the schema resolves for syntax child i, for every i
InCorrespondence(dom, children) ==
  /\ Len(dom) = Len(children)
  /\ \A i \in 1..Len(children) : dom[i].tag = ExpectedTag(children[i])

\* C1: append-monotonicity: if the target holds what render(T1) produces, then
\* after append(T2) it holds, by tags, nesting and text, what render(T1 + T2)
\* into an empty target produces.
C1_AppendMonotone ==
  [][(/\ last'.op = "append" /\ last'.pass /\ last'.err = ""
      /\ render(tree).err = "" /\ render(tree').err = ""
      /\ Shape(doms[target]) = Shape(render(tree).dom)
      /\ blk = render(tree).blk)
     => Shape(doms'[target]) = Shape(render(tree').dom)]_vars

\* C2: after every completed structural pass over n >= 1 top-level children the
\* target has exactly n child elements and element i has the schema-resolved
\* tag of syntax child i (every child being of a kind the schema resolves).
C2_OneToOne ==
  (last.pass /\ last.err = "" /\ tree # <<>> /\ AllResolved(tree))
    => InCorrespondence(doms[last.t], tree)

\* C3: idempotence: a second structural pass on the same target with no append
\* in between mutates nothing in the target.
C3_Idempotent ==
  [][(/\ last.pass /\ last.err = "" /\ last.t = target
      /\ last'.op = "setTarget" /\ last'.pass /\ target' = target)
     => doms'[target] = doms[target]]_vars

\* C4: append on a renderer without fragments fails with the uninitialized
\* error before any effect: the text mutator is not invoked and text, tree,
\* fragments and targets stay as they are.
C4_UninitializedAppend ==
  [][(fragEnd = -1 /\ last'.op = "append")
     => /\ last'.err = "AST is not instantiated"
        /\ ~last'.setText
        /\ text' = text /\ tree' = tree /\ fragEnd' = fragEnd
        /\ doms' = doms /\ blk' = blk]_vars

C4_Witness ==
  /\ last.op = "append" /\ last.err = "AST is not instantiated"
  /\ hasSetter /\ target # 0 /\ doms[target] # <<>>

\* C5: when a pass runs the sync pass, every top-level element below the first
\* tag mismatch is the same node with the same content afterwards.
C5_SyncFrame ==
  [][(last'.pass /\ last'.synced /\ last'.mismatch >= 0)
     => \A i \in 1..last'.mismatch :
          /\ i <= Len(doms[last'.t]) /\ i <= Len(doms'[last'.t])
          /\ doms'[last'.t][i] = doms[last'.t][i]]_vars

\* render("1. item") then append("\n- item2"): the first ol node, still with
\* one item, followed by a new ul with one item
C5_Witness ==
  /\ last.op = "append" /\ last.synced /\ last.mismatch = 1 /\ last.err = ""
  /\ Len(doms[last.t]) = 2
  /\ doms[last.t][1].tag = "ol" /\ doms[last.t][1].id = 1
  /\ Len(doms[last.t][1].kids) = 1
  /\ doms[last.t][2].tag = "ul" /\ doms[last.t][2].id > 2
  /\ Len(doms[last.t][2].kids) = 1

\* C6: when an append only grows the last top-level block and its tag stays,
\* the pass keeps every top-level element node, the one at the tail index
\* included.
C6_GrowKeepsElement ==
  [][(/\ last'.op = "append" /\ last'.pass /\ last'.err = ""
      /\ tree # <<>> /\ Len(tree') = Len(tree)
      /\ Front(tree') = Front(tree)
      /\ Last(tree').name = Last(tree).name
      /\ Last(tree').to > Last(tree).to
      /\ InCorrespondence(doms[target], tree))
     => /\ Len(doms'[target]) = Len(doms[target])
        /\ \A i \in 1..Len(doms[target]) : doms'[target][i].id = doms[target][i].id]_vars

\* C7: when the syntax child at the tail index resolves to a tag other than
\* that of the element at that index, the pass ends with a new element of the
\* expected tag at that index, the old element gone and the element count
\* unchanged.
C7_ReplaceAtIndex ==
  [][(/\ last'.pass /\ last'.err = "" /\ tree' # <<>>
      /\ Len(doms[last'.t]) = Len(tree')
      /\ AllResolved(tree')
      /\ InCorrespondence(Front(doms[last'.t]), Front(tree'))
      /\ Last(doms[last'.t]).tag # ExpectedTag(Last(tree')))
     => /\ Len(doms'[last'.t]) = Len(tree')
        /\ Last(doms'[last'.t]).tag = ExpectedTag(Last(tree'))
        /\ Last(doms'[last'.t]).id \notin Ids(doms[last'.t])
        /\ Last(doms[last'.t]).id \notin Ids(doms'[last'.t])]_vars

\* C8: a heading node of level N is rendered into an element with tag hN.
C8_HeadingTag ==
  \A k \in 1..Len(last.used) :
    LET node == tree[last.used[k][1] + 1]
    IN node.name \in HeadingKinds
         => \E i \in 1..Len(doms[last.t]) :
              /\ doms[last.t][i].id = last.used[k][2]
              /\ doms[last.t][i].tag = HTag(HeadingLevel(node.name))

C8_Witness ==
  /\ last.pass /\ last.err = "" /\ last.used # <<>>
  /\ tree[1].name = "ATXHeading6"
  /\ doms[last.t][1].tag = "h6"

\* C9: after setTarget the new target holds one element per top-level syntax
\* child of the current tree, in order (every child being of a kind the schema
\* resolves).
C9_SetTargetWhole ==
  (last.op = "setTarget" /\ last.pass /\ tree # <<>> /\ AllResolved(tree))
    => last.err = "" /\ InCorrespondence(doms[last.t], tree)

\* C10: while the target accessor resolves to no element an append renders
\* nothing and throws nothing, and text and tree advance; an append at which it
\* resolves to an empty element throws nothing and dispatches the render
\* function of every top-level child that is not a comment.
C10_AccessorReresolved ==
  [][(last'.op = "append" /\ fragEnd # -1)
     => /\ target = 0
          => /\ last'.err = "" /\ ~last'.pass /\ doms' = doms
             /\ Len(text') > Len(text) /\ tree' = Parse(text')
        /\ (target # 0 /\ doms[target] = <<>>)
          => /\ last'.err = ""
             /\ \A i \in 1..Len(tree') :
                  tree'[i].name # "CommentBlock"
                    => \E k \in 1..Len(last'.disp) : last'.disp[k] = i - 1]_vars

C12_SerializedAppends ==
  /\ text = sent
  /\ tree = Parse(text)
  /\ fragEnd # -1 => fragEnd = Len(text)
  /\ (last.op = "append" /\ last.chunk # <<>> /\ target # 0) => last.pass

\* the text began empty and got its three units in two appends at least
C12_Witness ==
  /\ last.op = "append" /\ Len(last.chunk) = 1 /\ Len(text) = 3
  /\ text[1] = Tok("open", "Paragraph")
  /\ fragEnd = 3
\* ------------------------------------------------------------ inline claims
\* the offsets a, a + 1, ..., b - 1
Range(a, b) == [i \in 1..(b - a) |-> a + i - 1]

\* what textContent of a host node shows, as offsets into the source text
RECURSIVE TextOf(_)
RECURSIVE TextOfKids(_, _)
TextOfKids(kids, j) ==
  IF j > Len(kids) THEN <<>> ELSE TextOf(kids[j]) \o TextOfKids(kids, j + 1)

TextOf(el) ==
  IF el.tag = "#text" THEN Range(el.txt[1], el.txt[2]) ELSE TextOfKids(el.kids, 1)

\* the host nodes below a sequence of children, at any depth
RECURSIVE Below(_)
Below(kids) ==
  UNION {{kids[j]} \cup Below(kids[j].kids) : j \in 1..Len(kids)}

\* the syntax nodes below a sequence of nodes, at any depth
RECURSIVE NodesBelow(_)
NodesBelow(nodes) ==
  UNION {{nodes[j]} \cup NodesBelow(nodes[j].kids) : j \in 1..Len(nodes)}

DelimKinds == InstKinds \ {"HardBreak", "HeaderMark"}

\* the offsets of a mark's span that belong to no delimiter, in order
PlainOf(n) ==
  LET delims == {d \in NodesBelow(n.kids) : d.name \in DelimKinds}
      covered(i) == \E d \in delims : d.from <= i /\ i < d.to
  IN SelectSeq(Range(n.from, n.to), LAMBDA i : ~covered(i))

\* a mark holding plain text and nested marks only
TextualMark(n) ==
  /\ n.name \in NestableKinds
  /\ \A d \in NodesBelow(n.kids) : d.name \in NestableKinds \cup DelimKinds

\* the mark nodes of the document
MarkNodes == {n \in NodesBelow(tree) : n.name \in NestableKinds}

\* the last operation was a pass over the target it set
Rendered == last.op = "setTarget" /\ last.pass /\ last.t \in Targets

\* C13: after a pass, every nestable mark with both delimiters that holds
\* plain text and nested marks has an element of its mark tag whose text
\* content is the source between its delimiters without the nested delimiters.
C13_MarkText ==
  Rendered =>
    \A n \in MarkNodes :
      TextualMark(n) =>
        /\ last.err = ""
        /\ \E e \in Below(doms[last.t]) :
             /\ e.tag = markTag(LezerTagMap(n.name))
             /\ TextOf(e) = PlainOf(n)

\* the nodes of a kind in the document, at any depth
NodesOf(kind) == {n \in NodesBelow(tree) : n.name = kind}

\* C17: after a pass, the target holds a break element for every hard break
\* of the inline content, also for one inside a nestable mark.
C17_HardBreakKept ==
  (Rendered /\ NodesOf("HardBreak") # {}) =>
    /\ last.err = ""
    /\ Cardinality({e \in Below(doms[last.t]) : e.tag = markTag("hard_break")})
         = Cardinality(NodesOf("HardBreak"))

\* C18: after a pass, every escape node shows as a text run over its span
\* without the leading escape character, and the escape character itself is
\* shown nowhere.
C18_EscapePlain ==
  Rendered =>
    \A n \in NodesOf("Escape") :
      /\ last.err = ""
      /\ \E e \in Below(doms[last.t]) :
           e.tag = "#text" /\ e.txt = <<n.from + 1, n.to>>
      /\ \A e \in Below(doms[last.t]) :
           e.tag = "#text" => ~(e.txt[1] <= n.from /\ n.from < e.txt[2])

\* the nodes without the raw HTML tags, whose characters are then plain text
RECURSIVE Strip(_)
Strip(nodes) ==
  LET keep == SelectSeq(nodes, LAMBDA n : n.name # "HTMLTag")
  IN [j \in 1..Len(keep) |-> [keep[j] EXCEPT !.kids = Strip(keep[j].kids)]]

\* the error of a first pass over the document without its raw HTML tags
PlainErr == renderDOM(NewPass(<<>>, 1, NoBlock, "h1"), Strip(tree)).err

\* the tags the schema and the engine create elements with
EngineTags ==
  {"p", "pre", "code", "hr", "ol", "ul", "li", "span", "#text"} \cup HeadingTags
    \cup {markTag(LezerTagMap(k)) : k \in NestableKinds} \cup {markTag("hard_break")}

C20_NoHalfBuilt ==
  [][(last'.pass /\ last'.err # "") =>
       \A e \in Below(doms'[last'.t]) :
         \E o \in Below(doms[last'.t]) : o.id = e.id]_vars

\* -------------------------------------------------------------- link claims
HasUrl(node) == \E j \in 1..Len(node.kids) : node.kids[j].name = "URL"

Malformed(node) == ~HasUrl(node) \/ Len(node.kids) < 3

\* C14: a link node with fewer than 3 children or without URL child comes
\* back as the literal text of its whole span, with no anchor element and no
\* error.
C14_LinkFallback ==
  (link.done /\ Malformed(link.node)) =>
    /\ link.err = ""
    /\ link.out.tag # "a"
    /\ \A e \in Below(link.out.kids) : e.tag = "#text"
    /\ TextOf(link.out) = Range(link.node.from, link.node.to)

C14_Witness ==
  /\ link.done /\ ~HasUrl(link.node) /\ Len(link.node.kids) >= 3
  /\ link.out.tag = "span"

\* the anchor renderLinkMark made for a link with a URL child
Anchor == link.done /\ ~Malformed(link.node) /\ link.err = "" /\ link.out.tag = "a"

\* C15 as stated: the href is the URL text unchanged exactly when the text is
\* well-formed and its own scheme is one of http:, https:, mailto:, tel:, and
\* "#" otherwise.
C15_HrefBySchemeOnly ==
  Anchor =>
    /\ link.href \in {link.url, Hash}
    /\ link.href = link.url <=> (link.url.ok /\ link.url.scheme \in AllowedProtocols)

\* the URL text, read on the page, is a well-formed URL of an allowed scheme:
\* its own scheme when it has one, the page's when it has none
AllowedOnPage(url, page) ==
  /\ url.ok
  /\ \/ url.scheme \in AllowedProtocols
     \/ url.scheme = "" /\ page \in {"http:", "https:"}

\* C15 amended: the href is the URL text unchanged exactly when the text is
\* well-formed and its scheme (the page's scheme for a text without one) is
\* one of http:, https:, mailto:, tel:; otherwise it is "#". A text with any
\* other scheme of its own, javascript: included, always gets "#".
C15_HrefAllowList ==
  Anchor =>
    /\ link.href \in {link.url, Hash}
    /\ link.href = link.url <=> AllowedOnPage(link.url, link.page)
    /\ link.url.scheme \notin AllowedProtocols \cup {""} => link.href = Hash

C15_Witness ==
  /\ Anchor /\ link.url.scheme = "" /\ link.url.ok /\ link.page = "https:"
  /\ link.href = link.url

\* the label of a link: what lies between its first two LinkMark children
LabelNodes(node) ==
  LET close == CHOOSE j \in 2..Len(node.kids) :
                 /\ node.kids[j].name = "LinkMark"
                 /\ \A i \in 2..(j - 1) : node.kids[i].name # "LinkMark"
  IN SubSeq(node.kids, 2, close - 1)

\* C16: a well-formed link whose child at index 1 is the URL gets an anchor
\* whose only content is the URL text; any other well-formed link gets an
\* anchor that shows the whole label between the brackets, with an element
\* for every mark of the label.
C16_LinkLabel ==
  (link.done /\ ~Malformed(link.node)) =>
    /\ link.err = "" /\ link.out.tag = "a"
    /\ LET kids == link.node.kids
           label == LabelNodes(link.node)
       IN IF kids[2].name = "URL"
            THEN /\ TextOf(link.out) = Range(kids[2].from, kids[2].to)
                 /\ \A e \in Below(link.out.kids) : e.tag = "#text"
            ELSE /\ TextOf(link.out) =
                      PlainOf(Node("", kids[1].to, kids[Len(label) + 2].from, label))
                 /\ \A n \in NodesBelow(label) :
                      n.name \in NestableKinds =>
                        \E e \in Below(link.out.kids) :
                          /\ e.tag = markTag(LezerTagMap(n.name))
                          /\ TextOf(e) = PlainOf(n)

\* ------------------------------------------------------ structural claims
\* C21: a structural pass over a tree without top-level children changes
\* neither the target's children nor the checkpoint and throws nothing, also
\* on a target that holds content.
C21_EmptyNoOp ==
  [][(last'.pass /\ tree' = <<>>)
     => /\ doms' = doms /\ blk' = blk /\ nid' = nid
        /\ last'.err = "" /\ ~last'.synced /\ last'.disp = <<>>]_vars

\* render(target, "") on a target that holds two elements
C21_Witness ==
  /\ last.op = "setTarget" /\ last.pass /\ tree = <<>>
  /\ Len(doms[last.t]) >= 2

\* the previous pass recorded a tail index, and this pass ends with a greater one
TailMoved == blk.index >= 0 /\ blk'.index > blk.index

\* C22: a pass that ends with a tail index greater than the one the previous
\* pass recorded invokes the cleanup hook of the previous tail node's kind, if
\* the schema has one, exactly once and with the element at the previous tail
\* index, whatever that index is; a pass that leaves the tail index as it was
\* invokes no cleanup hook.
C22_CleanupOnce ==
  [][(last'.pass /\ last'.err = "" /\ last.pass /\ last.t = last'.t
      /\ InCorrespondence(doms[last.t], tree)
      /\ InCorrespondence(doms'[last.t], tree'))
     => /\ (TailMoved /\ HasCleanup(LezerTagMap(blk.name)))
             => last'.cleaned = <<<<blk.index, doms'[last.t][blk.index + 1].id>>>>
        /\ (TailMoved /\ ~HasCleanup(LezerTagMap(blk.name))) => last'.cleaned = <<>>
        /\ blk'.index = blk.index => last'.cleaned = <<>>]_vars

\* the code text nodes of a fenced code block
CodeTexts(node) == SelectSeq(node.kids, LAMBDA n : n.name = "CodeText")

\* the offsets of the code text nodes from the k-th on, in order
RECURSIVE CodeRange(_, _)
CodeRange(codeNodes, k) ==
  IF k > Len(codeNodes) THEN <<>>
  ELSE Range(codeNodes[k].from, codeNodes[k].to) \o CodeRange(codeNodes, k + 1)

\* C24: after a pass without error, every top-level fenced code block with
\* code text has a pre element among the target's children that holds one
\* code element whose text is the code text, and the pre carries the class
\* language-X of the block's info string X (no such class without info
\* string), however the fence, the info string and the code text were appended.
C24_FencedInfo ==
  (last.pass /\ last.err = "") =>
    \A i \in 1..Len(tree) :
      (tree[i].name = "FencedCode" /\ CodeTexts(tree[i]) # <<>>)
        => \E j \in 1..Len(doms[last.t]) :
             /\ doms[last.t][j].tag = "pre"
             /\ doms[last.t][j].cls = CodeInfoOf(tree[i])
             /\ Len(doms[last.t][j].kids) = 1
             /\ doms[last.t][j].kids[1].tag = "code"
             /\ TextOf(doms[last.t][j].kids[1]) = CodeRange(CodeTexts(tree[i]), 1)

\* C25: an append that gets past the fragments check hands the fragment
\* derivation exactly one edited range, {fromA: T, toA: T, fromB: T,
\* toB: T + len(chunk)}, T being the end offset of the text before the append.
C25_EditedRange ==
  [][(last'.op = "append" /\ fragEnd # -1)
     => last'.changed = <<[fromA |-> Len(text), toA |-> Len(text), fromB |-> Len(text),
                           toB |-> Len(text) + Len(last'.chunk)]>>]_vars

\* the target's children right after the sync pass of the step
AfterSync == syncDOM(NewPass(doms[last'.t], nid, blk, htag), tree').dom

\* C26: right after a sync pass over n syntax children the target has no
\* child at or beyond the first index whose tag differs from the expected tag,
\* and at most n children, every one with the expected tag of its index.
C26_SyncRemoves ==
  [][(last'.pass /\ last'.synced /\ last'.mismatch # -2)
     => /\ Len(AfterSync) <= Len(tree')
        /\ last'.mismatch >= 0 => Len(AfterSync) <= last'.mismatch
        /\ \A i \in 1..Min(Len(AfterSync), Len(tree')) :
             AfterSync[i].tag = ExpectedTag(tree'[i])]_vars

\* C27: the checkpoint stays empty until the first structural pass over a
\* tree with children, and every structural pass over n >= 1 children that
\* ends without error leaves in it the index n - 1 with the kind and the span
\* of that child in the current tree.
C27_Checkpoint ==
  [][/\ (last'.pass /\ last'.err = "" /\ tree' # <<>>)
          => blk' = blockState(Len(tree') - 1, Last(tree'))
     /\ (blk = NoBlock /\ ~(last'.pass /\ tree' # <<>>)) => blk' = NoBlock]_vars

\* the element with identity id among the children of a target, Nil when none
ChildWithId(dom, id) ==
  IF \E i \in 1..Len(dom) : dom[i].id = id
    THEN dom[CHOOSE i \in 1..Len(dom) : dom[i].id = id]
    ELSE Nil

\* C28: in a pass that ends without error, an element that was already a child
\* of the target before the pass and that a render function used for the child
\* at some index has the resolved tag of that child: no h1 is kept for a
\* level-2 heading, no ol for a bullet list, no ul for an ordered list.
C28_ReuseByTag ==
  [][(last'.pass /\ last'.err = "" /\ last'.t # 0)
     => \A k \in 1..Len(last'.used) :
          ChildWithId(doms[last'.t], last'.used[k][2]) # Nil
            => ChildWithId(doms[last'.t], last'.used[k][2]).tag
                 = ExpectedTag(tree'[last'.used[k][1] + 1])]_vars

\* the top-level children that are not comments, in order
NonComment(children) == SelectSeq(children, LAMBDA n : n.name # "CommentBlock")

\* C29: a structural pass over a tree that holds a comment ends without error,
\* dispatches no render function for a comment, and leaves in the target one
\* element per child that is not a comment, in order, with the tag of its child.
C29_CommentSkipped ==
  [][(last'.pass /\ last'.t # 0
        /\ \E i \in 1..Len(tree') : tree'[i].name = "CommentBlock")
     => /\ last'.err = ""
        /\ \A k \in 1..Len(last'.disp) :
             tree'[last'.disp[k] + 1].name # "CommentBlock"
        /\ Len(doms'[last'.t]) = Len(NonComment(tree'))
        /\ \A i \in 1..Len(NonComment(tree')) :
             doms'[last'.t][i].tag = ExpectedTag(NonComment(tree')[i])]_vars

\* C30: in a pass without error in which the list renderer ran for the child
\* at some index, the list element it rendered into is a child of the target
\* afterwards, and, when no sync pass ran, every element that was at an index
\* no render function was called for is still there, unchanged.
C30_NestedScoped ==
  [][(last'.pass /\ last'.err = "" /\ last'.t # 0)
     => /\ \A k \in 1..Len(last'.used) :
             tree'[last'.used[k][1] + 1].name \in ListKinds
               => ChildWithId(doms'[last'.t], last'.used[k][2]) # Nil
        /\ ~last'.synced
             => \A i \in 1..Len(doms[last'.t]) :
                  (\A k \in 1..Len(last'.disp) : last'.disp[k] # i - 1)
                    => item(doms'[last'.t], i - 1) = doms[last'.t][i]]_vars

\* what an element shows: its tag, its text and its children
RECURSIVE Shown(_, _)
Shown(e, txt) ==
  IF e.tag = "#text"
    THEN [tag |-> e.tag, str |-> SubSeq(txt, e.txt[1] + 1, e.txt[2]), kids |-> <<>>]
    ELSE [tag |-> e.tag, str |-> <<>>,
          kids |-> [j \in 1..Len(e.kids) |-> Shown(e.kids[j], txt)]]

\* C23: every mark element a pass skipped because its stamped span equals the
\* span of the node matched to it shows what the node rendered from scratch
\* shows: the same tags and the same text.
C23_SpanSkip ==
  [][last'.pass
       => \A sk \in last'.skips : Shown(sk.el, text') = Shown(Fresh(sk.fn), text')]_vars

\* a pass after an append skipped a mark element that holds another mark
C23_Witness ==
  /\ last.op = "append" /\ last.pass
  /\ \E sk \in last.skips : \E j \in 1..Len(sk.el.kids) : sk.el.kids[j].tag # "#text"

\* ------------------------------------------------------ container claims
\* the children of the element e correspond 1:1, in order and by tag, to nodes
KidsMatch(e, nodes) ==
  /\ Len(e.kids) = Len(nodes)
  /\ \A j \in 1..Len(nodes) : e.kids[j].tag = ExpectedTag(nodes[j])

\* the list element e has one li per list item, and every li one child per
\* non-instruction child of its item, with the tag of that child
ListMatches(e, node) ==
  /\ Len(e.kids) = Len(node.kids)
  /\ \A j \in 1..Len(node.kids) :
       /\ e.kids[j].tag = "li"
       /\ KidsMatch(e.kids[j], getNonInstChildren(node.kids[j]))

\* C31: in a pass without error, a list element the list renderer rendered
\* into, and that is a child of the target afterwards, has exactly one li per
\* list item of its node, and each li exactly one child per child of its item,
\* in order and with its tag.
C31_ContainerKids ==
  [][(last'.pass /\ last'.err = "" /\ last'.t # 0)
     => \A k \in 1..Len(last'.used) :
          (/\ tree'[last'.used[k][1] + 1].name \in ListKinds
           /\ ChildWithId(doms'[last'.t], last'.used[k][2]) # Nil)
            => ListMatches(ChildWithId(doms'[last'.t], last'.used[k][2]),
                           tree'[last'.used[k][1] + 1])]_vars

\* C32: a pass over a tree that holds a kind without a schema entry ends
\* without error (a default handler rendered the node) or with the descriptive
\* unknown-kind error, never with another failure.
C32_UnknownKind ==
  [][(last'.pass /\ last'.t # 0
        /\ \E i \in 1..Len(tree') :
             tree'[i].name # "CommentBlock" /\ ~HasSpec(tree'[i].name))
     => last'.err \in {"", "Unknown node type"}]_vars

\* ------------------------------------------------- formatting tree claims
\* the children of the formatting node n, at every depth, lie within the span
\* of their parent, do not overlap and leave no gap between one another, and a
\* leaf without a syntax node is turned into the text of its span
RECURSIVE WellFormed(_)
WellFormed(n) ==
  /\ n.node = NoNode => iNodeToVNode(n) = Str(n.from, n.to)
  /\ \A j \in 1..Len(n.kids) :
       /\ n.from <= n.kids[j].from /\ n.kids[j].from <= n.kids[j].to
       /\ n.kids[j].to <= n.to
       /\ j < Len(n.kids) => n.kids[j].to = n.kids[j + 1].from
       /\ WellFormed(n.kids[j])

\* C33: the formatting tree built for the block of the document has, at every
\* depth, children with contiguous, non-overlapping spans within the span of
\* their parent, and its leaves without a syntax node show text[from, to).
C33_SpansContiguous ==
  tree # <<>> => WellFormed(buildInlineNodeTree(tree[1]))

\* the offsets of the region of n that are neither in a delimiter nor the
\* escape character of an escape, in order
SourceOf(n) ==
  LET below == NodesBelow(n.kids)
      dropped(i) ==
        \/ \E d \in below : d.name \in DelimKinds /\ d.from <= i /\ i < d.to
        \/ \E d \in below : d.name = "Escape" /\ d.from = i
  IN SelectSeq(Range(n.from, n.to), LAMBDA i : ~dropped(i))

\* a paragraph of plain text, escapes and nestable marks, at any depth
TextualRegion(n) ==
  /\ n.name = "Paragraph"
  /\ \A d \in NodesBelow(n.kids) :
       d.name \in (NestableKinds \cup DelimKinds) \cup {"Escape"}

\* C34: after a pass over a paragraph of plain text, escapes and nestable
\* marks, the text content of the paragraph's element is the region's source
\* without the delimiters and the escape characters, every other character
\* once and in order.
C34_TextKept ==
  (Rendered /\ TextualRegion(tree[1])) =>
    /\ last.err = ""
    /\ Len(doms[last.t]) = 1
    /\ TextOf(doms[last.t][1]) = SourceOf(tree[1])

\* the host node e is the render node of the formatting node n: a text unit
\* with the text of the span for a leaf without a syntax node, an element with
\* the schema tag for a mark
RenderNodeOf(e, n) ==
  /\ n.node = NoNode => e.tag = "#text" /\ e.txt = <<n.from, n.to>>
  /\ n.node.name \in NestableKinds => e.tag = markTag(LezerTagMap(n.node.name))

\* C35: after a pass, the children of the block's element are, in order, one
\* render node for each formatting node built for the block: a text unit with
\* the leaf's text for a plain-text leaf, an element with the schema tag for a
\* mark.
C35_OnePerNode ==
  Rendered =>
    \E ns \in {buildInlineNodeTree(tree[1]).kids} :
      /\ last.err = ""
      /\ Len(doms[last.t]) = 1
      /\ Len(doms[last.t][1].kids) = Len(ns)
      /\ \A j \in 1..Len(ns) : RenderNodeOf(doms[last.t][1].kids[j], ns[j])

\* ------------------------------------------------------------ merge claims
\* the new nodes the last pass merged into the paragraph's element
NewNodes == IF tree = <<>> THEN <<>> ELSE buildInlineNodeTree(tree[1]).kids

\* in the configuration c the old child at the cursor does not match the new
\* node at the cursor, and the old child after it does
Lookahead(c) ==
  /\ c.i < Len(c.old) /\ c.j <= Len(NewNodes)
  /\ ~Matches(c.old[c.i], NewNodes[c.j])
  /\ Matches(c.old[c.i + 1], NewNodes[c.j])

\* the old children and the new nodes the cursors of c have not passed yet
Remaining(c) == (Len(c.old) + 1 - c.i) + (Len(NewNodes) + 1 - c.j)

\* C36: in the merge of a pass, a step taken where the old child at the cursor
\* does not match the new node but the next old child does removes exactly
\* that old child and leaves the new cursor and every other child alone; every
\* step passes at least one old child or new node, and the merge takes at most
\* |old| + |new| steps.
C36_MergeSteps ==
  (last.pass /\ last.log # <<>>) =>
    /\ \A k \in 1..(Len(last.log) - 1) :
         /\ Lookahead(last.log[k]) =>
              /\ last.log[k + 1].old = RemoveAt(last.log[k].old, last.log[k].i)
              /\ last.log[k + 1].i = last.log[k].i
              /\ last.log[k + 1].j = last.log[k].j
         /\ Remaining(last.log[k + 1]) < Remaining(last.log[k])
    /\ Len(last.log) - 1 <= Len(last.log[1].old) + Len(NewNodes)

\* a pass whose merge removed an old child because the next one matched
C36_Witness ==
  /\ last.pass
  /\ \E k \in 1..(Len(last.log) - 1) : Lookahead(last.log[k])

\* ----------------------------------------------------------- schema claims
\* C37: the schema is never modified: after any sequence of operations the
\* heading entry's tag has its configured value.
C37_SchemaKept == htag = schemaSpec("heading", "h1")

\* ------------------------------------------------------- incremental claims
\* the sync pass of the step removed the element at index i of the target
SyncRemoved(i) ==
  /\ last'.synced
  /\ i < Len(doms[last'.t]) /\ i >= Len(AfterSync)

\* C38: a pass after an append that leaves the number of top-level children
\* as it was dispatches the render function for the last child (unless it is a
\* comment block, which has none) and for no other; and a pass that follows a pass over the same target dispatches no
\* child below the last index of that pass, unless the sync pass removed the
\* child's element.
C38_TailOnly ==
  [][/\ (last'.op = "append" /\ last'.pass /\ last'.t # 0
           /\ tree # <<>> /\ Len(tree') = Len(tree))
          => /\ \A k \in 1..Len(last'.disp) : last'.disp[k] = Len(tree') - 1
             /\ (last'.err = "" /\ Last(tree').name # "CommentBlock")
                  => last'.disp = <<Len(tree') - 1>>
     /\ (last'.pass /\ last'.t # 0 /\ last.pass /\ last.err = "" /\ last.t = last'.t)
          => \A k \in 1..Len(last'.disp) :
               last'.disp[k] < Len(tree) - 1 => SyncRemoved(last'.disp[k])]_vars

\* ------------------------------------------------------------ error claims
\* rendering the inline region of the paragraph throws
Throws(tr) ==
  PatchKids(<<>>, hChildren(childVNodes(buildInlineNodeTree(tr[1]).kids)), 1, 1).err # ""

\* C39: when the render function of the paragraph throws in the pass of an
\* append, the append ends with that error after one dispatch, and the text,
\* the tree and the end offset of the fragments are those after the chunk; the
\* append after a failed one starts at the end of the text the failed one left.
C39_ThrowKeeps ==
  [][/\ (last'.op = "append" /\ last'.pass /\ Throws(tree'))
          => /\ last'.err = "TypeError" /\ last'.disp = <<0>>
             /\ text' = text \o last'.chunk /\ sent' = sent \o last'.chunk
             /\ tree' = ParseTail(tree, text') /\ tree' # tree
             /\ fragEnd' = Len(text')
     /\ (last.op = "append" /\ last.err # "" /\ last'.op = "append")
          => /\ last'.changed[1].fromA = Len(text)
             /\ text' = text \o last'.chunk]_vars

\* a second append, after the render function threw in the pass of the first
C39_Witness ==
  /\ last.op = "append" /\ last.pass /\ last.err = "TypeError" /\ last.disp = <<0>>
  /\ Len(last.chunk) = 1 /\ TailLen = MaxTail
  /\ Throws(tree) /\ doms[last.t] # <<>>


====
